---- MODULE Spec2Model ----
(***************************************************************************)
(* VertexArbiter backend: the site state cache (SiteStateService) in       *)
(* front of the MARA API client (MaraApiService), with the configuration   *)
(* store (ConfigManager) and the periodic refresh timer.                   *)
(*                                                                         *)
(* Every await of the TypeScript code is a step boundary: an operation     *)
(* starts (running synchronously up to its first await), each upstream     *)
(* call it issued completes or fails in a later step, and the caller's     *)
(* continuation runs as soon as the operation's promise has settled.       *)
(*                                                                         *)
(* The calculators of ProfitabilityService and DecisionEngine are pure     *)
(* functions of their arguments: they are operators on exact fractions,    *)
(* applied to one call at a time.                                          *)
(***************************************************************************)
EXTENDS Integers, Naturals, Sequences, FiniteSets, TLC

VARIABLES
  now,          \* Date.now()
  advances,     \* how often the clock has been advanced
  configured,   \* ConfigManager.siteConfig !== null
  cache,        \* SiteStateService.cache
  ops,          \* the cache operations in progress, one per caller slot
  refreshTimer, \* the interval of startPeriodicRefresh is active
  invalidated,  \* history: kinds invalidated and not fetched again since
  statusReport, \* what getCacheStatus has just returned to its caller
  handlers,     \* the runs of the socket handlers, of StartupService and of
                \* updateMachineAllocation in progress, one per source
  server,       \* the serving process: start-up, shutdown, update timer
  calc,         \* the call of a calculator or decision-engine function: its
                \* name, its arguments and, once applied, what it returned
  trend         \* the run of getProfitabilityTrend: where it stands, what it
                \* has collected, and the log of its reads and waits

vars == <<now, advances, configured, cache, ops, refreshTimer, invalidated,
          statusReport, handlers, server, calc, trend>>

\* the state outside SiteStateService, which no cache operation touches
boundary == <<statusReport, handlers, server>>

----------------------------------------------------------------------------
(* Bounds of the model *)

\* concurrent cache operations (callers awaiting a result)
MaxOps == 2
\* upstream calls in flight at the same time
MaxInflight == 3
\* number of times the clock is advanced in one run
MaxAdvances == 1
\* largest number of samples getProfitabilityTrend is asked for
MaxSamples == 3

----------------------------------------------------------------------------
(* Constants of the program *)

Kinds == {"inventory", "prices", "machineStatus"}

\* faulty variant of DEFAULT_TTL: the inventory line copied for prices
DEFAULT_TTL_copied ==
  [k \in Kinds |->
     CASE k = "inventory"     -> 30 * 60 * 1000
       [] k = "prices"        -> 30 * 60 * 1000
       [] k = "machineStatus" -> 2 * 60 * 1000]

DEFAULT_TTL ==
  [k \in Kinds |->
     CASE k = "inventory"     -> 30 * 60 * 1000
       [] k = "prices"        -> 5 * 60 * 1000
       [] k = "machineStatus" -> 2 * 60 * 1000]

\* payloads the upstream API answers with (the cache never looks into them)
Data == {"a", "b"}
NoData == "-"
OpIds == 1..MaxOps

\* amounts by which the clock is advanced between two steps: the shortest
\* and the longest time to live, so that an entry can be younger than,
\* exactly as old as, and older than its time to live
ClockSteps == {DEFAULT_TTL[k] : k \in {"machineStatus", "inventory"}}

\* the empty cache slot (null)
NULL == [null |-> TRUE]

----------------------------------------------------------------------------
(* MaraApiService: what an upstream call can end with *)

\* message of the Error each MaraApiService method throws
ErrNoSiteConfig == "No site configuration found"
ErrRequest      == "request failed"
ErrNoPriceData  == "No price data available from API"

\* causes with which the request of a configured site can fail
RequestFailures(k) ==
  IF k = "prices" THEN {ErrRequest, ErrNoPriceData} ELSE {ErrRequest}

\* catch block of each MaraApiService getter: the cause is wrapped in a new
\* Error "Get <kind> failed: <cause>"
WrapError(k, cause) == [op |-> k, cause |-> cause]

NoErr == [op |-> "", cause |-> ""]

----------------------------------------------------------------------------
(* SiteStateService helpers *)

\* faulty variants of isCacheValid: comparison turned round; entry of age ttl valid
isCacheValid_reversed(entry, t) ==
  IF entry = NULL THEN FALSE ELSE t - entry.timestamp > entry.ttl

isCacheValid_inclusive(entry, t) ==
  IF entry = NULL THEN FALSE ELSE t - entry.timestamp <= entry.ttl

isCacheValid(entry, t) ==
  IF entry = NULL THEN FALSE ELSE t - entry.timestamp < entry.ttl

\* faulty variant of createCacheEntry: time to live and timestamp swapped
createCacheEntry_swapped(data, ttl, t) ==
  [data |-> data, timestamp |-> ttl, ttl |-> t]

createCacheEntry(data, ttl, t) ==
  [data |-> data, timestamp |-> t, ttl |-> ttl]

----------------------------------------------------------------------------
(* State of one get<Kind> call inside an operation *)

\* st: none    no call for this kind
\*     pending upstream call issued, not yet settled; sent = the HTTP request
\*             went out (FALSE: MaraApiService threw before sending it);
\*             sent is kept only while the call is pending
\*     cached  returned the valid cache entry, no upstream call
\*     fresh   upstream succeeded, returned the fetched value
\*     stale   upstream failed, returned the entry of the slot
\*     raised  upstream failed, slot empty, error rethrown
NoSub      == [st |-> "none",    sent |-> FALSE, val |-> NoData, err |-> NoErr]
Pending(s) == [st |-> "pending", sent |-> s,     val |-> NoData, err |-> NoErr]
Cached(v)  == [st |-> "cached",  sent |-> FALSE, val |-> v, err |-> NoErr]
Fresh(v)   == [st |-> "fresh",   sent |-> FALSE, val |-> v, err |-> NoErr]
Stale(v)   == [st |-> "stale",   sent |-> FALSE, val |-> v, err |-> NoErr]
Raised(e)  == [st |-> "raised",  sent |-> FALSE, val |-> NoData, err |-> e]

Returned == {"cached", "fresh", "stale"}

\* phase: idle     free slot
\*        running  the operation's promise is not settled
\*        settled  the promise is settled (res), the caller has not resumed
\*        orphaned the caller has resumed with a failure while get calls of
\*                 the operation are still in flight; of the calls that end
\*                 now, only a fresh value is kept in sub, until the last
\*                 call has ended
\* res, ret, err: how the promise settled ("ok" with the value ret, or
\* "failed" with the error err)
\* held: history of a single get call: the kinds it fetches whose slot held
\*       an entry when the call began
NoRet == [k \in Kinds |-> NoData]

IdleOp ==
  [type |-> "idle", force |-> FALSE, phase |-> "idle", held |-> {},
   sub |-> [k \in Kinds |-> NoSub], res |-> "none", ret |-> NoRet, err |-> NoErr]

PendingOf(op) == {k \in Kinds : op.sub[k].st = "pending"}

InflightCount(o) ==
  LET RECURSIVE Sum(_)
      Sum(S) == IF S = {} THEN 0
                ELSE LET t == CHOOSE x \in S : TRUE
                     IN Cardinality(PendingOf(o[t])) + Sum(S \ {t})
  IN Sum(OpIds)

\* getCacheStatus has returned nothing that its caller has not yet taken
NoReport == [none |-> TRUE]

\* the caller of a settled operation, and of getCacheStatus, resumes before
\* anything else happens
Quiet ==
  /\ \A t \in OpIds : ops[t].phase # "settled"
  /\ statusReport = NoReport
  /\ \A s \in DOMAIN handlers : handlers[s].pc # "done"

----------------------------------------------------------------------------
(* The boundary: socket handlers, StartupService, updateMachineAllocation *)

\* who runs a handler: a connected socket, the server itself (initialize and
\* the periodic update), a direct caller of updateMachineAllocation
Sources == {"socket", "server", "caller"}
Clients == {"c1", "c2"}

MachineTypes ==
  {"air_miners", "hydro_miners", "immersion_miners", "gpu_compute", "asic_compute"}

NoRequest == [m \in MachineTypes |-> 0]

\* kind: the handler; pc: the await it is suspended at, or "done"; sent: the
\* pending upstream call went out as a request; request: the allocation to
\* submit; status: the machine status fetched; events: the events emitted
\* by this run, in order; failed, err: the run ended in its catch block or
\* rejected with err; submitted: the PUT /machines request went out
NoFailure == [op |-> "", cause |-> "", overage |-> 0]

IdleHandler ==
  [kind |-> "idle", client |-> "", pc |-> "idle", sent |-> FALSE,
   request |-> NoRequest, status |-> NoData, events |-> <<>>,
   failed |-> FALSE, err |-> NoFailure, submitted |-> FALSE]

\* per-unit power of each machine type in the inventory the API answers with
InventoryPower ==
  [m \in MachineTypes |->
     CASE m = "air_miners"       -> 3333
       [] m = "hydro_miners"     -> 5000
       [] m = "immersion_miners" -> 10000
       [] m = "gpu_compute"      -> 3333
       [] m = "asic_compute"     -> 10000]

\* siteConfig.power of the configured site
SitePower == 1000000

\* the allocation StartupService.initialize submits
initialAllocation ==
  [m \in MachineTypes |->
     CASE m = "air_miners"       -> 30
       [] m = "hydro_miners"     -> 80
       [] m = "immersion_miners" -> 15
       [] m = "gpu_compute"      -> 25
       [] m = "asic_compute"     -> 8]

\* unit counts a caller of updateMachineAllocation asks for, per machine type
UnitChoices == {0, 80, 100}
Requests == [MachineTypes -> UnitChoices]

\* validateMachineAllocation: totalPower of an allocation
totalPower(allocation) ==
  LET RECURSIVE Sum(_)
      Sum(S) == IF S = {} THEN 0
                ELSE LET m == CHOOSE x \in S : TRUE
                     IN (IF allocation[m] # 0
                           THEN allocation[m] * InventoryPower[m] ELSE 0)
                        + Sum(S \ {m})
  IN Sum(MachineTypes)

ErrPowerLimit == "Power allocation exceeds site limit"
ErrNoSite     == "Site configuration not found"

\* validateMachineAllocation once the inventory is there, for a site that is
\* (sited) or is no longer configured: the error it throws, NoFailure if none
PowerCheck(allocation, sited) ==
  IF ~sited
    THEN [op |-> "validateMachineAllocation", cause |-> ErrNoSite, overage |-> 0]
  ELSE IF totalPower(allocation) > SitePower
    THEN [op |-> "validateMachineAllocation", cause |-> ErrPowerLimit,
          overage |-> totalPower(allocation) - SitePower]
  ELSE NoFailure

\* catch block of validateMachineAllocation: only the power error is
\* rethrown, any other error is logged and validation passes
ValidationError(e) == IF e.cause = ErrPowerLimit THEN e ELSE NoFailure

\* catch block of updateMachineAllocation: "Update machine allocation
\* failed: <message>"
AllocationError(e) == [e EXCEPT !.op = "updateMachineAllocation"]

\* the analysis the handlers attach to a status, as far as the boundary looks
\* at it: ProfitabilityService.calculateAnalysis of this status at these
\* prices for this site, with the arbitrage decision taken on them
AnalysisOf(status, prices, sited) ==
  [currentPrices |-> prices, siteInfo |-> sited,
   arbitrage |-> [status |-> status, prices |-> prices]]

SocketKinds == {"request_machine_status", "subscribe_updates"}
ServerKinds == {"initialize", "periodic_update"}

\* faulty variant of Recipient: the socket handlers broadcast with io.emit
Recipient_everyone(h) == "all"

\* socket.emit for the handlers of a socket, io.emit for StartupService
Recipient(h) == IF h.kind \in SocketKinds THEN h.client ELSE "all"

Emit(h, name, payload) ==
  [h EXCEPT !.events = Append(@, [name |-> name, to |-> Recipient(h),
                                   payload |-> payload])]

\* the handler returns
Done(h) == [h EXCEPT !.pc = "done", !.sent = FALSE]

\* the await of the next upstream call: MaraApiService sends the request of
\* a getter only for a configured site, the PUT in any case
Await(h, pc) ==
  [h EXCEPT !.pc = pc,
            !.sent = IF pc = "put" THEN TRUE ELSE configured,
            !.submitted = IF pc = "put" THEN TRUE ELSE @]

\* faulty variant of OnHandlerError: a failed initialize is only logged
OnHandlerError_silent(h, e) ==
  LET f == [h EXCEPT !.failed = TRUE, !.err = e]
  IN  CASE h.kind = "request_machine_status" ->
             Done(Emit(f, "machine_status_error",
                       [message |-> "Failed to fetch machine status", error |-> e]))
        [] h.kind = "subscribe_updates" ->
             Done(Emit(f, "machine_status_error",
                       [message |-> "Failed to load initial machine status",
                        error |-> e]))
        [] OTHER -> Done(f)

\* the catch block of the handler for the error e
OnHandlerError(h, e) ==
  LET f == [h EXCEPT !.failed = TRUE, !.err = e]
  IN  CASE h.kind = "request_machine_status" ->
             Done(Emit(f, "machine_status_error",
                       [message |-> "Failed to fetch machine status", error |-> e]))
        [] h.kind = "subscribe_updates" ->
             Done(Emit(f, "machine_status_error",
                       [message |-> "Failed to load initial machine status",
                        error |-> e]))
        [] h.kind = "initialize" ->
             Done(Emit(f, "startup_error",
                       [message |-> "Failed to initialize machine allocation",
                        error |-> e]))
        [] OTHER -> Done(f)

----------------------------------------------------------------------------
(* JavaScript numbers, as far as the calculators use them: a number is the  *)
(* fraction num/den in lowest terms with den >= 0. A denominator of 0 is    *)
(* what a division by zero produces: 1/0 is Infinity, -1/0 is -Infinity and *)
(* 0/0 is NaN. Rounding is not modelled (the arithmetic is exact), and the  *)
(* literal 1.1 is eleven tenths.                                            *)

RECURSIVE GCD(_, _)
GCD(a, b) == IF b = 0 THEN a ELSE GCD(b, a % b)

Magnitude(i) == IF i < 0 THEN -i ELSE i
Sign(i) == IF i < 0 THEN -1 ELSE IF i > 0 THEN 1 ELSE 0

\* the number n/d (d may be negative or zero), in lowest terms
Num(n, d) ==
  IF d = 0 THEN [num |-> Sign(n), den |-> 0]
  ELSE LET g == GCD(Magnitude(n), Magnitude(d))
       IN  [num |-> Sign(d) * (n \div g), den |-> Magnitude(d) \div g]

Whole(i) == [num |-> i, den |-> 1]
Zero == Whole(0)
Infinity == [num |-> 1, den |-> 0]
NegInfinity == [num |-> -1, den |-> 0]
NaN == [num |-> 0, den |-> 0]

isNaN(x) == x.den = 0 /\ x.num = 0
isFinite(x) == x.den > 0

\* x * y; Infinity * 0 is NaN
Times(x, y) ==
  IF x.den = 0 \/ y.den = 0 THEN [num |-> Sign(x.num) * Sign(y.num), den |-> 0]
  ELSE LET g1 == GCD(Magnitude(x.num), y.den)
           g2 == GCD(Magnitude(y.num), x.den)
       IN  Num((x.num \div g1) * (y.num \div g2), (x.den \div g2) * (y.den \div g1))

\* x / y; 0/0 and Infinity/Infinity are NaN, and a non-zero number over zero
\* is an infinity of its sign
Over(x, y) ==
  IF isNaN(x) \/ isNaN(y) THEN NaN
  ELSE IF y.den = 0 THEN (IF x.den = 0 THEN NaN ELSE Zero)
  ELSE IF y.num = 0 THEN [num |-> Sign(x.num), den |-> 0]
  ELSE Times(x, [num |-> Sign(y.num) * y.den, den |-> Magnitude(y.num)])

\* x + y; Infinity + -Infinity is NaN
Plus(x, y) ==
  IF isNaN(x) \/ isNaN(y) THEN NaN
  ELSE IF x.den = 0 THEN (IF y.den = 0 /\ y.num # x.num THEN NaN ELSE x)
  ELSE IF y.den = 0 THEN y
  ELSE LET g == GCD(x.den, y.den)
       IN  Num(x.num * (y.den \div g) + y.num * (x.den \div g),
               (x.den \div g) * y.den)

Negated(x) == [num |-> -x.num, den |-> x.den]
Minus(x, y) == Plus(x, Negated(y))
MathAbs(x) == [num |-> Magnitude(x.num), den |-> x.den]

\* x < y; every comparison with NaN is false
Less(x, y) ==
  /\ ~isNaN(x)
  /\ ~isNaN(y)
  /\ IF x.den = 0 THEN x.num < 0 /\ y # x
     ELSE IF y.den = 0 THEN y.num > 0
     ELSE LET g == GCD(x.den, y.den)
          IN  x.num * (y.den \div g) < y.num * (x.den \div g)

Greater(x, y) == Less(y, x)

\* Math.min and Math.max of two numbers; NaN if either is NaN
MathMin(x, y) == IF isNaN(x) \/ isNaN(y) THEN NaN ELSE IF Less(y, x) THEN y ELSE x
MathMax(x, y) == IF isNaN(x) \/ isNaN(y) THEN NaN ELSE IF Less(x, y) THEN y ELSE x

----------------------------------------------------------------------------
(* ProfitabilityService and DecisionEngine: the calculators *)

Undefined == [undefined |-> TRUE]

\* Number.prototype.toFixed(digits), as the number the text shows: rounded
\* to that many decimals, halves away from zero; Infinity and NaN print as
\* themselves
toFixed(x, digits) ==
  IF x.den = 0 THEN x
  ELSE LET scale == 10 ^ digits
           m     == Times(MathAbs(x), Whole(scale))
           q     == (2 * m.num + m.den) \div (2 * m.den)
       IN  Num(Sign(x.num) * q, scale)

\* faulty variant of calculateROI: a free machine has an ROI of 100%
calculateROI_free(powerUsed, revenue, energyPrice) ==
  LET cost == Times(Over(powerUsed, Whole(1000)), energyPrice)
  IN  IF Greater(cost, Zero)
        THEN Times(Over(Minus(revenue, cost), cost), Whole(100))
        ELSE Whole(100)

calculateROI(powerUsed, revenue, energyPrice) ==
  LET cost == Times(Over(powerUsed, Whole(1000)), energyPrice)
  IN  IF Greater(cost, Zero)
        THEN Times(Over(Minus(revenue, cost), cost), Whole(100))
        ELSE Zero

calculateMiningMetrics(airMinersRevenue, hydroMinersRevenue, immersionMinersRevenue, airMinersPower, hydroMinersPower, immersionMinersPower, energyPrice) ==
  LET revenue == Plus(Plus(airMinersRevenue, hydroMinersRevenue), immersionMinersRevenue)
      power   == Plus(Plus(airMinersPower, hydroMinersPower), immersionMinersPower)
      cost    == Times(Over(power, Whole(1000)), energyPrice)
      profit  == Minus(revenue, cost)
  IN  [revenue |-> revenue, power |-> power, cost |-> cost, profit |-> profit,
       profitPerKw |-> IF Greater(power, Zero)
                         THEN Over(profit, Over(power, Whole(1000))) ELSE Zero,
       efficiency  |-> IF Greater(power, Zero)
                         THEN Over(revenue, Over(power, Whole(1000))) ELSE Zero]

calculateComputingMetrics(gpuComputeRevenue, asicComputeRevenue, gpuComputePower, asicComputePower, energyPrice) ==
  LET revenue == Plus(gpuComputeRevenue, asicComputeRevenue)
      power   == Plus(gpuComputePower, asicComputePower)
      cost    == Times(Over(power, Whole(1000)), energyPrice)
      profit  == Minus(revenue, cost)
  IN  [revenue |-> revenue, power |-> power, cost |-> cost, profit |-> profit,
       profitPerKw |-> IF Greater(power, Zero)
                         THEN Over(profit, Over(power, Whole(1000))) ELSE Zero,
       efficiency  |-> IF Greater(power, Zero)
                         THEN Over(revenue, Over(power, Whole(1000))) ELSE Zero]

\* faulty variant of profitPerKw: no guard against a power of zero
profitPerKw_unguarded(profit, power) == Over(profit, Over(power, Whole(1000)))

\* determineArbitrageChoice: miningProfitPerKw and computingProfitPerKw
profitPerKw(profit, power) ==
  IF Greater(power, Zero) THEN Over(profit, Over(power, Whole(1000))) ELSE Zero

\* determineArbitrageChoice: the profit difference as a percentage
profitDifferencePercent(miningProfit, computingProfit, miningPower, computingPower) ==
  LET totalProfit == Plus(miningProfit, computingProfit)
      profitDifference ==
        MathAbs(Minus(profitPerKw(miningProfit, miningPower),
                      profitPerKw(computingProfit, computingPower)))
  IN  IF Greater(totalProfit, Zero)
        THEN Times(Over(profitDifference, Over(totalProfit, Whole(2))), Whole(100))
        ELSE Zero

\* faulty variant of beats: any advantage decides
beats_noThreshold(perKw, otherPerKw) == Greater(perKw, otherPerKw)

\* determineArbitrageChoice: one side is ahead by the 10% threshold
beats(perKw, otherPerKw) == Greater(perKw, Times(otherPerKw, Num(11, 10)))

\* faulty variant of directionalConfidence: no upper limit
directionalConfidence_uncapped(percent) == Plus(Whole(50), percent)

\* determineArbitrageChoice: the confidence of a mining or computing choice
directionalConfidence(percent) == MathMin(Whole(95), Plus(Whole(50), percent))

\* determineArbitrageChoice: the confidence of a mixed choice
mixedConfidence(percent) == MathMax(Whole(60), Minus(Whole(100), percent))

\* reasoning: the words the text opens with and the numbers it prints
determineArbitrageChoice(miningProfit, computingProfit, miningPower, computingPower) ==
  LET miningProfitPerKw    == profitPerKw(miningProfit, miningPower)
      computingProfitPerKw == profitPerKw(computingProfit, computingPower)
      percent == profitDifferencePercent(miningProfit, computingProfit,
                                         miningPower, computingPower)
  IN  IF beats(miningProfitPerKw, computingProfitPerKw)
        THEN [choice |-> "mining",
              reasoning |-> <<"Mining is", toFixed(percent, 1),
                              toFixed(miningProfitPerKw, 2),
                              toFixed(computingProfitPerKw, 2)>>,
              confidence |-> directionalConfidence(percent)]
      ELSE IF beats(computingProfitPerKw, miningProfitPerKw)
        THEN [choice |-> "computing",
              reasoning |-> <<"Computing is", toFixed(percent, 1),
                              toFixed(computingProfitPerKw, 2),
                              toFixed(miningProfitPerKw, 2)>>,
              confidence |-> directionalConfidence(percent)]
      ELSE [choice |-> "mixed",
            reasoning |-> <<"Profits are similar", toFixed(percent, 1)>>,
            confidence |-> mixedConfidence(percent)]

\* a status: units, power and revenue per machine type, and the three
\* totals the API derives; prices: energy_price; siteConfig: NULL or the
\* site's power

\* faulty variant of machineEfficiency: an idle machine type gets a
\* zero-valued record
machineEfficiency_always(status, prices, m) ==
  [roi |-> calculateROI(status.power[m], status.revenue[m], prices.energy_price),
   unitsAllocated |-> status.units[m],
   powerUsed |-> status.power[m],
   revenue |-> status.revenue[m]]

\* calculateAnalysis: the efficiency record of machine type m
machineEfficiency(status, prices, m) ==
  IF status.units[m] > 0
    THEN [roi |-> calculateROI(status.power[m], status.revenue[m], prices.energy_price),
          unitsAllocated |-> status.units[m],
          powerUsed |-> status.power[m],
          revenue |-> status.revenue[m]]
    ELSE NULL

\* calculateAnalysis: the basic profit metrics
netProfit(status) == Minus(status.total_revenue, status.total_power_cost)

\* faulty variant of profitMargin: the margin is taken on the cost
profitMargin_onCost(status) ==
  IF Greater(status.total_power_cost, Zero)
    THEN Times(Over(netProfit(status), status.total_power_cost), Whole(100))
    ELSE Zero

profitMargin(status) ==
  IF Greater(status.total_revenue, Zero)
    THEN Times(Over(netProfit(status), status.total_revenue), Whole(100))
    ELSE Zero

powerUtilization(status, siteConfig) ==
  IF siteConfig # NULL
    THEN Times(Over(status.total_power_used, siteConfig.power), Whole(100))
    ELSE Zero

\* calculateAnalysis: the revenue and the power of the two groups
miningRevenue(status) ==
  Plus(Plus(status.revenue["air_miners"], status.revenue["hydro_miners"]),
       status.revenue["immersion_miners"])

\* faulty variant of miningPower: the immersion miners are left out
miningPower_airHydro(status) ==
  Plus(status.power["air_miners"], status.power["hydro_miners"])

miningPower(status) ==
  Plus(Plus(status.power["air_miners"], status.power["hydro_miners"]),
       status.power["immersion_miners"])

computingRevenue(status) ==
  Plus(status.revenue["gpu_compute"], status.revenue["asic_compute"])

computingPower(status) ==
  Plus(status.power["gpu_compute"], status.power["asic_compute"])

calculateAnalysis(status, prices, siteConfig) ==
  LET kw == Over(status.total_power_used, Whole(1000))
      used == Greater(status.total_power_used, Zero)
      miningCost == Times(Over(miningPower(status), Whole(1000)), prices.energy_price)
      miningProfit == Minus(miningRevenue(status), miningCost)
      computingCost == Times(Over(computingPower(status), Whole(1000)), prices.energy_price)
      computingProfit == Minus(computingRevenue(status), computingCost)
      arbitrageDecision ==
        determineArbitrageChoice(miningProfit, computingProfit,
                                 miningPower(status), computingPower(status))
  IN  [netProfit |-> netProfit(status),
       profitMargin |-> profitMargin(status),
       powerUtilization |-> powerUtilization(status, siteConfig),
       revenuePerKw |-> IF used THEN Over(status.total_revenue, kw) ELSE Zero,
       costPerKw |-> IF used THEN Over(status.total_power_cost, kw) ELSE Zero,
       profitPerKw |-> IF used THEN Over(netProfit(status), kw) ELSE Zero,
       currentPrices |-> prices,
       siteInfo |-> siteConfig,
       arbitrage |->
         [currentChoice |-> arbitrageDecision.choice,
          reasoning |-> arbitrageDecision.reasoning,
          confidence |-> arbitrageDecision.confidence,
          mining |->
            [revenue |-> miningRevenue(status), power |-> miningPower(status),
             cost |-> miningCost, profit |-> miningProfit,
             profitPerKw |-> IF Greater(miningPower(status), Zero)
                               THEN Over(miningProfit, Over(miningPower(status), Whole(1000)))
                               ELSE Zero,
             efficiency |-> IF Greater(miningPower(status), Zero)
                              THEN Over(miningRevenue(status),
                                        Over(miningPower(status), Whole(1000)))
                              ELSE Zero],
          computing |->
            [revenue |-> computingRevenue(status), power |-> computingPower(status),
             cost |-> computingCost, profit |-> computingProfit,
             profitPerKw |-> IF Greater(computingPower(status), Zero)
                               THEN Over(computingProfit,
                                         Over(computingPower(status), Whole(1000)))
                               ELSE Zero,
             efficiency |-> IF Greater(computingPower(status), Zero)
                              THEN Over(computingRevenue(status),
                                        Over(computingPower(status), Whole(1000)))
                              ELSE Zero]],
       machineEfficiency |-> [m \in MachineTypes |-> machineEfficiency(status, prices, m)]]

\* the order in which rankMachinesByProfitability looks at the machine
\* types, and the names it gives them
MachineOrder ==
  <<"air_miners", "hydro_miners", "immersion_miners", "gpu_compute", "asic_compute">>

TypeLabel ==
  [m \in MachineTypes |->
     CASE m = "air_miners"       -> "Air Miners"
       [] m = "hydro_miners"     -> "Hydro Miners"
       [] m = "immersion_miners" -> "Immersion Miners"
       [] m = "gpu_compute"      -> "GPU Compute"
       [] m = "asic_compute"     -> "ASIC Compute"]

\* faulty variant of sortByRoi: ascending
sortByRoi_ascending(machines) ==
  LET RECURSIVE Sorted(_)
      Sorted(n) ==
        IF n = 0 THEN <<>>
        ELSE LET before == Sorted(n - 1)
                 x      == machines[n]
                 ahead  == {i \in 1..Len(before) :
                              Greater(Minus(before[i].roi, x.roi), Zero)}
                 at     == IF ahead = {} THEN Len(before) + 1
                           ELSE CHOOSE i \in ahead : \A j \in ahead : i <= j
             IN  SubSeq(before, 1, at - 1) \o <<x>> \o SubSeq(before, at, Len(before))
  IN  Sorted(Len(machines))

\* machines.sort((a, b) => b.roi - a.roi): the sort is stable, so each
\* machine goes in front of the first one the comparator puts behind it
sortByRoi(machines) ==
  LET RECURSIVE Sorted(_)
      Sorted(n) ==
        IF n = 0 THEN <<>>
        ELSE LET before == Sorted(n - 1)
                 x      == machines[n]
                 ahead  == {i \in 1..Len(before) :
                              Greater(Minus(x.roi, before[i].roi), Zero)}
                 at     == IF ahead = {} THEN Len(before) + 1
                           ELSE CHOOSE i \in ahead : \A j \in ahead : i <= j
             IN  SubSeq(before, 1, at - 1) \o <<x>> \o SubSeq(before, at, Len(before))
  IN  Sorted(Len(machines))

rankMachinesByProfitability(analysis) ==
  LET RECURSIVE Pushed(_)
      Pushed(n) ==
        IF n = 0 THEN <<>>
        ELSE LET e == analysis.machineEfficiency[MachineOrder[n]]
             IN  IF e # NULL
                   THEN Append(Pushed(n - 1),
                               [type |-> TypeLabel[MachineOrder[n]], roi |-> e.roi,
                                revenue |-> e.revenue, power |-> e.powerUsed,
                                units |-> e.unitsAllocated])
                   ELSE Pushed(n - 1)
  IN  sortByRoi(Pushed(Len(MachineOrder)))

\* a recommendation: the words its text opens with and the numbers it prints

\* faulty variant of utilizationAdvice: 70% counts as low
utilizationAdvice_inclusive(analysis) ==
  IF ~Greater(analysis.powerUtilization, Whole(70))
    THEN <<[text |-> "Power utilization is low",
            figures |-> <<toFixed(analysis.powerUtilization, 1)>>]>>
  ELSE IF Greater(analysis.powerUtilization, Whole(95))
    THEN <<[text |-> "Power utilization is very high",
            figures |-> <<toFixed(analysis.powerUtilization, 1)>>]>>
  ELSE <<>>

\* generateRecommendations: power utilization recommendations
utilizationAdvice(analysis) ==
  IF Less(analysis.powerUtilization, Whole(70))
    THEN <<[text |-> "Power utilization is low",
            figures |-> <<toFixed(analysis.powerUtilization, 1)>>]>>
  ELSE IF Greater(analysis.powerUtilization, Whole(95))
    THEN <<[text |-> "Power utilization is very high",
            figures |-> <<toFixed(analysis.powerUtilization, 1)>>]>>
  ELSE <<>>

\* generateRecommendations: profit margin recommendations
marginAdvice(analysis) ==
  IF Less(analysis.profitMargin, Whole(20))
    THEN <<[text |-> "Profit margin is low",
            figures |-> <<toFixed(analysis.profitMargin, 1)>>]>>
  ELSE IF Greater(analysis.profitMargin, Whole(60))
    THEN <<[text |-> "Excellent profit margin",
            figures |-> <<toFixed(analysis.profitMargin, 1)>>]>>
  ELSE <<>>

\* generateRecommendations: arbitrage recommendations
arbitrageAdvice(analysis) ==
  IF Greater(analysis.arbitrage.confidence, Whole(80))
    THEN <<[text |-> "High confidence arbitrage opportunity",
            figures |-> <<>>]>>
  ELSE <<>>

\* faulty variant of efficiencyAdvice: any gap between best and worst counts
efficiencyAdvice_anyGap(analysis) ==
  LET machineRanking == rankMachinesByProfitability(analysis)
      bestMachine    == machineRanking[1]
      worstMachine   == machineRanking[Len(machineRanking)]
  IN  IF Len(machineRanking) > 1
         /\ Greater(bestMachine.roi, worstMachine.roi)
        THEN <<[text |-> "Consider reallocating",
                from |-> worstMachine.type, to |-> bestMachine.type,
                figures |-> <<toFixed(worstMachine.roi, 1),
                              toFixed(bestMachine.roi, 1)>>]>>
        ELSE <<>>

\* generateRecommendations: machine efficiency recommendations; from and to
\* are the machine types the text names
efficiencyAdvice(analysis) ==
  LET machineRanking == rankMachinesByProfitability(analysis)
      bestMachine    == machineRanking[1]
      worstMachine   == machineRanking[Len(machineRanking)]
  IN  IF Len(machineRanking) > 1
         /\ Greater(bestMachine.roi, Times(worstMachine.roi, Whole(2)))
        THEN <<[text |-> "Consider reallocating",
                from |-> worstMachine.type, to |-> bestMachine.type,
                figures |-> <<toFixed(worstMachine.roi, 1),
                              toFixed(bestMachine.roi, 1)>>]>>
        ELSE <<>>

\* generateRecommendations: power capacity recommendations
capacityAdvice(powerCapacityRemaining) ==
  IF Greater(powerCapacityRemaining, Whole(100000))
    THEN <<[text |-> "unused power capacity",
            figures |-> <<toFixed(Over(powerCapacityRemaining, Whole(1000)), 0)>>]>>
  ELSE <<>>

\* the inventory argument is not used
generateRecommendations(analysis, inventory, powerCapacityRemaining) ==
  utilizationAdvice(analysis) \o marginAdvice(analysis) \o arbitrageAdvice(analysis)
    \o efficiencyAdvice(analysis) \o capacityAdvice(powerCapacityRemaining)

\* reasoning: the number its text prints
determineMachineReallocation(analysis) ==
  LET machineRanking == rankMachinesByProfitability(analysis)
      bestMachine    == machineRanking[1]
      worstMachine   == machineRanking[Len(machineRanking)]
      roiDifference  ==
        Times(Over(Minus(bestMachine.roi, worstMachine.roi), worstMachine.roi),
              Whole(100))
  IN  IF Len(machineRanking) < 2 THEN Undefined
      ELSE IF Greater(bestMachine.roi, Times(worstMachine.roi, Whole(2)))
        THEN [from |-> worstMachine.type, to |-> bestMachine.type,
              reasoning |-> <<toFixed(roiDifference, 1)>>,
              confidence |-> MathMin(Whole(95),
                                     Plus(Whole(60), Over(roiDifference, Whole(10))))]
      ELSE Undefined

----------------------------------------------------------------------------
(* Calls of the calculators. A call names the function and its arguments;   *)
(* applying it records what the function returned. origin is the status an  *)
(* analysis passed on to the decision engine was calculated from.           *)

NoCall == [fn |-> "none", args |-> <<>>, origin |-> Undefined,
           applied |-> FALSE, result |-> <<>>]

Call(fn, args) == [NoCall EXCEPT !.fn = fn, !.args = args]

\* profits in dollars and powers in watts, as determineArbitrageChoice gets
\* them; at 100 W the profit per kW is far above the total profit, which
\* takes the confidence to its limits
Profits == {Whole(-1000), Zero, Whole(500), Whole(1000), Whole(1100)}
Powers  == {Zero, Whole(100), Whole(300000), Whole(500000), Whole(1000000)}

ArbitrageCalls ==
  {Call("determineArbitrageChoice",
        [miningProfit |-> mp, computingProfit |-> cp,
         miningPower |-> mw, computingPower |-> cw]) :
     mp \in Profits, cp \in Profits, mw \in Powers, cw \in Powers}

\* energy prices per kWh: negative, free, 0.12 and 1
EnergyPrices == {Num(-1, 10), Zero, Num(3, 25), Whole(1)}

RoiCalls ==
  {Call("calculateROI", [powerUsed |-> w, revenue |-> r, energyPrice |-> e]) :
     w \in {Zero, Whole(10000), Whole(100000)},
     r \in {Zero, Num(1, 2), Num(6, 5), Whole(12), Whole(500)},
     e \in EnergyPrices}

\* what the API can report for one machine type: not allocated; running at
\* 100 kW for $50; allocated but drawing no power; not allocated any more
\* but still reported with power and revenue
Reports ==
  {[units |-> 0,  power |-> Zero,          revenue |-> Zero],
   [units |-> 10, power |-> Whole(100000), revenue |-> Whole(50)],
   [units |-> 5,  power |-> Zero,          revenue |-> Zero],
   [units |-> 0,  power |-> Whole(100000), revenue |-> Whole(5)]}
\* (immersion miners and ASIC compute are either not allocated or running)

\* the totals of a status: nothing, the sums over the machine types with
\* the cost at 0.12 per kWh, or the figures of a larger site
Totals(report) ==
  LET RECURSIVE Sum(_, _)
      Sum(f, n) == IF n = 0 THEN Zero
                   ELSE Plus(report[MachineOrder[n]][f], Sum(f, n - 1))
      used == Sum("power", Len(MachineOrder))
  IN  {[total_power_used |-> Zero, total_revenue |-> Zero, total_power_cost |-> Zero],
       [total_power_used |-> used, total_revenue |-> Sum("revenue", Len(MachineOrder)),
        total_power_cost |-> Times(Over(used, Whole(1000)), Num(3, 25))],
       [total_power_used |-> Whole(800000), total_revenue |-> Whole(2500),
        total_power_cost |-> Num(4803, 4)]}

Statuses ==
  UNION {{[units   |-> [m \in MachineTypes |-> report[m].units],
           power   |-> [m \in MachineTypes |-> report[m].power],
           revenue |-> [m \in MachineTypes |-> report[m].revenue],
           total_power_used |-> t.total_power_used,
           total_revenue    |-> t.total_revenue,
           total_power_cost |-> t.total_power_cost] : t \in Totals(report)} :
         report \in {r \in [MachineTypes -> Reports] :
                       \A m \in {"immersion_miners", "asic_compute"} :
                         r[m].units = 10 \/ (r[m].power = Zero /\ r[m].units = 0)}}

\* no site configuration, a site without power, a site of 500 kW
SiteConfigs == {NULL, [name |-> "site", power |-> Zero],
                [name |-> "site", power |-> Whole(500000)]}

AnalysisCalls ==
  {Call("calculateAnalysis",
        [status |-> st, prices |-> [energy_price |-> e], siteConfig |-> sc]) :
     st \in Statuses, e \in {Zero, Num(3, 25), Whole(1)}, sc \in SiteConfigs}

\* revenues and powers of the machine types of one group
GroupFigures == {[revenue |-> Zero, power |-> Zero],
                 [revenue |-> Whole(50), power |-> Whole(100000)],
                 [revenue |-> Whole(5), power |-> Whole(100000)],
                 [revenue |-> Num(2401, 2), power |-> Whole(400000)]}

MiningMetricsCalls ==
  {Call("calculateMiningMetrics",
        [airMinersRevenue |-> a.revenue, hydroMinersRevenue |-> h.revenue,
         immersionMinersRevenue |-> i.revenue, airMinersPower |-> a.power,
         hydroMinersPower |-> h.power, immersionMinersPower |-> i.power,
         energyPrice |-> e]) :
     a \in GroupFigures, h \in GroupFigures, i \in GroupFigures, e \in EnergyPrices}

ComputingMetricsCalls ==
  {Call("calculateComputingMetrics",
        [gpuComputeRevenue |-> g.revenue, asicComputeRevenue |-> a.revenue,
         gpuComputePower |-> g.power, asicComputePower |-> a.power,
         energyPrice |-> e]) :
     g \in GroupFigures, a \in GroupFigures, e \in EnergyPrices}

\* analyses handed to the decision engine as they are: the figures the
\* functions read, with efficiency records of every mix of ROI values
Rois == {Whole(-50), Zero, Whole(100), Whole(250)}

EfficiencyRecords ==
  {NULL} \cup {[roi |-> r, unitsAllocated |-> 1, powerUsed |-> Whole(5000),
                revenue |-> Whole(50)] : r \in Rois}

Analysis(utilization, margin, confidence, efficiency) ==
  [powerUtilization |-> utilization, profitMargin |-> margin,
   arbitrage |-> [confidence |-> confidence], machineEfficiency |-> efficiency]

RankedAnalyses ==
  {Analysis(Num(8133, 100), Num(5198, 100), Whole(75), e) :
     e \in [MachineTypes -> EfficiencyRecords]}

RankingCalls ==
  {Call("rankMachinesByProfitability", [analysis |-> a]) : a \in RankedAnalyses}

ReallocationCalls ==
  {Call("determineMachineReallocation", [analysis |-> a]) : a \in RankedAnalyses}

\* three of the efficiency mixes: every type idle, two types of similar ROI,
\* two types far apart
AdvisedEfficiencies ==
  {e \in [MachineTypes -> EfficiencyRecords] :
     /\ \A m \in {"immersion_miners", "gpu_compute", "asic_compute"} : e[m] = NULL
     /\ \/ e["air_miners"] = NULL /\ e["hydro_miners"] = NULL
        \/ /\ e["air_miners"] # NULL /\ e["air_miners"].roi = Whole(100)
           /\ e["hydro_miners"] # NULL /\ e["hydro_miners"].roi \in {Whole(100), Whole(250)}}

\* every mix of the figures with three efficiency mixes, and every
\* efficiency mix with one choice of the figures
RecommendationCalls ==
  {Call("generateRecommendations",
        [analysis |-> Analysis(u, pm, c, e), inventory |-> "inventory",
         powerCapacityRemaining |-> r]) :
     u \in {Zero, Whole(65), Whole(70), Num(8133, 100), Whole(95), Whole(96),
            Infinity, NaN},
     pm \in {Whole(-10), Whole(19), Whole(20), Num(5198, 100), Whole(60), Whole(61)},
     c \in {Whole(75), Whole(85)},
     e \in AdvisedEfficiencies,
     r \in {Whole(100000), Whole(150000)}}
  \cup
  {Call("generateRecommendations",
        [analysis |-> a, inventory |-> "inventory",
         powerCapacityRemaining |-> Whole(100000)]) : a \in RankedAnalyses}

CalculatorCalls ==
  ArbitrageCalls \cup RoiCalls \cup AnalysisCalls \cup MiningMetricsCalls
    \cup ComputingMetricsCalls \cup RankingCalls \cup ReallocationCalls
    \cup RecommendationCalls

----------------------------------------------------------------------------
(* ProfitabilityService.getProfitabilityTrend. Each await of               *)
(* getRealTimeAnalysis and of the timer is a step boundary; the log keeps   *)
(* the reads, their answers and the waits in the order they happen.         *)

\* no run of getProfitabilityTrend
NoTrend ==
  [pc |-> "idle", samples |-> 0, intervalMinutes |-> 0, i |-> 0, elapsed |-> 0,
   log |-> <<>>, currentAnalysis |-> Undefined, historicalData |-> <<>>,
   result |-> Undefined, err |-> ""]

\* what reading historicalData[0].netProfit of an empty array throws
ErrTypeError == "Cannot read properties of undefined (reading 'netProfit')"

\* the analyses getRealTimeAnalysis returns, as far as the trend reads them
TrendAnalyses ==
  {[netProfit |-> p, profitMargin |-> Whole(50), powerUtilization |-> Whole(80)] :
     p \in {Whole(-1000), Zero, Whole(1000), Whole(1100)}}

\* faulty variant of forceRefreshOfSample: every sample forces a refresh
forceRefreshOfSample_always(i) == TRUE

\* getRealTimeAnalysis(i === 0)
forceRefreshOfSample(i) == i = 0

\* the trend calculation over the collected samples
trendOf(historicalData) ==
  LET firstProfit   == historicalData[1].netProfit
      lastProfit    == historicalData[Len(historicalData)].netProfit
      changePercent ==
        IF firstProfit # Zero
          THEN Times(Over(Minus(lastProfit, firstProfit), MathAbs(firstProfit)),
                     Whole(100))
          ELSE Zero
  IN  [trend |-> IF Greater(MathAbs(changePercent), Whole(5))
                   THEN IF Greater(changePercent, Zero) THEN "improving"
                                                        ELSE "declining"
                   ELSE "stable",
       changePercent |-> changePercent]

\* the call up to its first await: getRealTimeAnalysis() for currentAnalysis
GetProfitabilityTrend(samples, intervalMinutes) ==
  /\ trend.pc = "idle"
  /\ trend' = [NoTrend EXCEPT !.pc = "current", !.samples = samples,
                              !.intervalMinutes = intervalMinutes,
                              !.log = <<[ev |-> "read", arg |-> FALSE]>>]
  /\ UNCHANGED <<calc, now, advances, configured, cache, ops, refreshTimer,
                 invalidated, boundary>>

\* the awaited getRealTimeAnalysis returns: up to the next await, or to the
\* return of the call
AnalysisReturns(analysis) ==
  /\ trend.pc \in {"current", "sample"}
  /\ trend' =
       LET answered == [trend EXCEPT !.log = Append(@, [ev |-> "answer",
                                                        arg |-> analysis])]
       IN  IF trend.pc = "current"
             THEN LET t == [answered EXCEPT !.currentAnalysis = analysis]
                  IN  IF 0 < trend.samples
                        THEN [t EXCEPT !.pc = "sample", !.i = 0,
                                       !.log = Append(@, [ev |-> "read",
                                                  arg |-> forceRefreshOfSample(0)])]
                        ELSE [t EXCEPT !.pc = "threw", !.err = ErrTypeError]
             ELSE LET t == [answered EXCEPT !.historicalData =
                              Append(@, [timestamp |-> trend.elapsed,
                                         netProfit |-> analysis.netProfit,
                                         profitMargin |-> analysis.profitMargin,
                                         powerUtilization |-> analysis.powerUtilization])]
                  IN  IF trend.i < trend.samples - 1
                        THEN [t EXCEPT !.pc = "wait",
                                       !.log = Append(@, [ev |-> "wait",
                                                  arg |-> trend.intervalMinutes * 60 * 1000])]
                        ELSE [t EXCEPT !.pc = "returned",
                                       !.result = trendOf(t.historicalData)]
  /\ UNCHANGED <<calc, now, advances, configured, cache, ops, refreshTimer,
                 invalidated, boundary>>

\* the awaited getRealTimeAnalysis throws e: the catch block rethrows it
AnalysisFails(e) ==
  /\ trend.pc \in {"current", "sample"}
  /\ trend' = [trend EXCEPT !.pc = "threw", !.err = e,
                            !.log = Append(@, [ev |-> "failure", arg |-> e])]
  /\ UNCHANGED <<calc, now, advances, configured, cache, ops, refreshTimer,
                 invalidated, boundary>>

\* the timer between two samples fires: the next sample is read
TimerFires ==
  /\ trend.pc = "wait"
  /\ trend' = [trend EXCEPT !.pc = "sample", !.i = @ + 1,
                            !.elapsed = @ + trend.intervalMinutes * 60 * 1000,
                            !.log = Append(@, [ev |-> "read",
                                       arg |-> forceRefreshOfSample(trend.i + 1)])]
  /\ UNCHANGED <<calc, now, advances, configured, cache, ops, refreshTimer,
                 invalidated, boundary>>

----------------------------------------------------------------------------
InitService ==
  /\ now = 0
  /\ advances = 0
  /\ configured \in BOOLEAN
  /\ cache = [k \in Kinds |-> NULL]
  /\ ops = [t \in OpIds |-> IdleOp]
  /\ refreshTimer = FALSE
  /\ invalidated = {}
  /\ statusReport = NoReport
  /\ handlers = [s \in Sources |-> IdleHandler]
  /\ server = [boot |-> "listening", life |-> "up", updateTimer |-> FALSE]

\* no calculator or decision-engine function has been called
Init ==
  /\ InitService
  /\ calc = NoCall
  /\ trend = NoTrend

----------------------------------------------------------------------------
(* SiteStateService.getInventory / getPrices / getMachineStatus *)

\* the call up to its first await: serve the valid entry, or issue the
\* upstream call (MaraApiService sends the request only for a configured site)
\* faulty variant of UpstreamCall: the request goes out without a configuration check
UpstreamCall_unchecked == Pending(TRUE)

\* MaraApiService.getInventory / getPrices / getMachineStatus up to the await
\* of the request: without a site configuration it throws before sending
UpstreamCall == Pending(configured)

\* faulty variant of StartGet: forceRefresh ignored
StartGet_unforced(k, force) ==
  IF isCacheValid(cache[k], now)
    THEN Cached(cache[k].data)
    ELSE Pending(configured)

\* faulty variant of StartGet: a call joins the upstream call already in
\* flight for its kind instead of issuing its own
StartGet_joined(k, force) ==
  IF ~force /\ isCacheValid(cache[k], now)
    THEN Cached(cache[k].data)
  ELSE IF \E u \in OpIds : ops[u].sub[k].st = "pending"
    THEN Cached(NoData)
  ELSE UpstreamCall

StartGet(k, force) ==
  IF ~force /\ isCacheValid(cache[k], now)
    THEN Cached(cache[k].data)
    ELSE UpstreamCall

\* what the operation resolves to once all its get calls have returned: a
\* single call its value, getAllData the three values, warmupCache and the
\* refresh callback nothing
Result(type, sub) ==
  IF type \in {"get", "getAll"} THEN [k \in Kinds |-> sub[k].val] ELSE NoRet

\* faulty variants of OnFetchError: only an unexpired entry is served; the rethrown
\* error loses its cause
OnFetchError_validOnly(k, e) ==
  IF isCacheValid(cache[k], now) THEN Stale(cache[k].data) ELSE Raised(e)

OnFetchError_noCause(k, e) ==
  IF cache[k] # NULL THEN Stale(cache[k].data)
  ELSE Raised([op |-> k, cause |-> "Unknown error"])

\* the catch block of the call: stale entry if the slot has one, else rethrow
OnFetchError(k, e) ==
  IF cache[k] # NULL THEN Stale(cache[k].data) ELSE Raised(e)

\* faulty variant of AfterChild: a stale value rejects the aggregate like an error
AfterChild_staleRejects(op, k, s) ==
  LET sub2 == [op.sub EXCEPT ![k] = s]
      pend == {j \in Kinds : sub2[j].st = "pending"}
  IN  IF op.phase = "orphaned"
        THEN IF pend = {} THEN IdleOp ELSE [op EXCEPT !.sub[k] = NoSub]
      ELSE IF s.st \in {"raised", "stale"}
        THEN [op EXCEPT !.sub = sub2, !.phase = "settled",
                        !.res = "failed", !.err = WrapError(k, ErrRequest)]
      ELSE IF pend = {}
        THEN [op EXCEPT !.sub = sub2, !.phase = "settled", !.res = "ok",
                        !.ret = Result(op.type, sub2)]
      ELSE [op EXCEPT !.sub = sub2]

\* the operation after its get call for kind k has ended in sub-state s:
\* Promise.all (and a single await) rejects with the first rejection and
\* fulfils when every call has returned
AfterChild(op, k, s) ==
  LET sub2 == [op.sub EXCEPT ![k] = s]
      pend == {j \in Kinds : sub2[j].st = "pending"}
  IN  IF op.phase = "orphaned"
        THEN IF pend = {} THEN IdleOp
             ELSE [op EXCEPT !.sub[k] = IF s.st = "fresh" THEN s ELSE NoSub]
      ELSE IF s.st = "raised"
        THEN [op EXCEPT !.sub = sub2, !.phase = "settled",
                        !.res = "failed", !.err = s.err]
      ELSE IF pend = {}
        THEN [op EXCEPT !.sub = sub2, !.phase = "settled", !.res = "ok",
                        !.ret = Result(op.type, sub2)]
      ELSE [op EXCEPT !.sub = sub2]

\* a new operation whose get calls have just been started with sub-states sub
NewOp(type, force, sub) ==
  IF \E k \in Kinds : sub[k].st = "pending"
    THEN [type |-> type, force |-> force, phase |-> "running",
          held |-> {k \in Kinds : type = "get" /\ sub[k].st = "pending"
                                   /\ cache[k] # NULL},
          sub |-> sub, res |-> "none", ret |-> NoRet, err |-> NoErr]
    ELSE [type |-> type, force |-> force, phase |-> "settled",
          held |-> {k \in Kinds : type = "get" /\ sub[k].st = "pending"
                                   /\ cache[k] # NULL},
          sub |-> sub, res |-> "ok", ret |-> Result(type, sub), err |-> NoErr]

\* the caller takes the lowest free slot
FreeSlot(t) ==
  /\ ops[t].phase = "idle"
  /\ \A u \in OpIds : u < t => ops[u].phase # "idle"

Launch(t, op) ==
  /\ Quiet
  /\ FreeSlot(t)
  /\ InflightCount([ops EXCEPT ![t] = op]) <= MaxInflight
  /\ ops' = [ops EXCEPT ![t] = op]
  /\ UNCHANGED <<calc, trend, now, advances, configured, cache, refreshTimer, invalidated, boundary>>

Get(t, k, force) ==
  Launch(t, NewOp("get", force,
                  [j \in Kinds |-> IF j = k THEN StartGet(k, force) ELSE NoSub]))

GetAllData(t, force) ==
  Launch(t, NewOp("getAll", force, [j \in Kinds |-> StartGet(j, force)]))

\* faulty variant of WarmupCache: getAllData called without forceRefresh
WarmupCache_unforced(t) ==
  Launch(t, NewOp("warmup", FALSE, [j \in Kinds |-> StartGet(j, FALSE)]))

WarmupCache(t) ==
  Launch(t, NewOp("warmup", TRUE, [j \in Kinds |-> StartGet(j, TRUE)]))

\* faulty variant of RefreshTick: every slot is refreshed, valid or not
RefreshTick_all(t) ==
  /\ refreshTimer
  /\ Launch(t, NewOp("tick", TRUE, [j \in Kinds |-> StartGet(j, TRUE)]))

\* callback of startPeriodicRefresh's setInterval
RefreshTick(t) ==
  /\ refreshTimer
  /\ Launch(t, NewOp("tick", TRUE,
                     [j \in Kinds |-> IF ~isCacheValid(cache[j], now)
                                        THEN StartGet(j, TRUE) ELSE NoSub]))

\* faulty variant of FetchSucceed: a single get does not overwrite an entry
\* written while its own upstream call was in flight
FetchSucceed_keepsNewer(t, k, d) ==
  /\ Quiet
  /\ ops[t].sub[k].st = "pending"
  /\ ops[t].sub[k].sent
  /\ cache' = IF ops[t].type = "get" /\ k \notin ops[t].held /\ cache[k] # NULL
                THEN cache
                ELSE [cache EXCEPT ![k] = createCacheEntry(d, DEFAULT_TTL[k], now)]
  /\ ops' = [ops EXCEPT ![t] = AfterChild(ops[t], k, Fresh(d))]
  /\ invalidated' = invalidated \ {k}
  /\ UNCHANGED <<calc, trend, now, advances, configured, refreshTimer, boundary>>

\* faulty variant of FetchSucceed: the answer to a call whose aggregate has
\* already failed is dropped
FetchSucceed_dropsLate(t, k, d) ==
  /\ Quiet
  /\ ops[t].sub[k].st = "pending"
  /\ ops[t].sub[k].sent
  /\ cache' = IF ops[t].phase = "orphaned" THEN cache
                ELSE [cache EXCEPT ![k] = createCacheEntry(d, DEFAULT_TTL[k], now)]
  /\ ops' = [ops EXCEPT ![t] = AfterChild(ops[t], k, Fresh(d))]
  /\ invalidated' = invalidated \ {k}
  /\ UNCHANGED <<calc, trend, now, advances, configured, refreshTimer, boundary>>

\* the upstream request of a get call succeeds with payload d
FetchSucceed(t, k, d) ==
  /\ Quiet
  /\ ops[t].sub[k].st = "pending"
  /\ ops[t].sub[k].sent
  /\ cache' = [cache EXCEPT ![k] = createCacheEntry(d, DEFAULT_TTL[k], now)]
  /\ ops' = [ops EXCEPT ![t] = AfterChild(ops[t], k, Fresh(d))]
  /\ invalidated' = invalidated \ {k}
  /\ UNCHANGED <<calc, trend, now, advances, configured, refreshTimer, boundary>>

\* faulty variant of FetchFail: a failed refresh drops the expired entry
FetchFail_evicts(t, k, cause) ==
  /\ Quiet
  /\ ops[t].sub[k].st = "pending"
  /\ cause \in (IF ops[t].sub[k].sent THEN RequestFailures(k)
                                        ELSE {ErrNoSiteConfig})
  /\ ops' = [ops EXCEPT ![t] =
               AfterChild(ops[t], k,
                          OnFetchError(k, WrapError(k, cause)))]
  /\ cache' = [cache EXCEPT ![k] =
                 IF isCacheValid(cache[k], now) THEN cache[k] ELSE NULL]
  /\ UNCHANGED <<calc, trend, now, advances, configured, refreshTimer, invalidated, boundary>>

\* faulty variant of FetchFail: a single get decides on the old entry by
\* what the slot held when the call began
FetchFail_decidedAtCall(t, k, cause) ==
  /\ Quiet
  /\ ops[t].sub[k].st = "pending"
  /\ cause \in (IF ops[t].sub[k].sent THEN RequestFailures(k)
                                        ELSE {ErrNoSiteConfig})
  /\ ops' = [ops EXCEPT ![t] =
               AfterChild(ops[t], k,
                          IF ops[t].type # "get" THEN OnFetchError(k, WrapError(k, cause))
                          ELSE IF k \in ops[t].held
                            THEN Stale(IF cache[k] # NULL THEN cache[k].data ELSE NoData)
                            ELSE Raised(WrapError(k, cause)))]
  /\ UNCHANGED <<calc, trend, now, advances, configured, cache, refreshTimer, invalidated, boundary>>

\* faulty variant of FetchFail: serving the old entry renews it
FetchFail_renews(t, k, cause) ==
  /\ Quiet
  /\ ops[t].sub[k].st = "pending"
  /\ cause \in (IF ops[t].sub[k].sent THEN RequestFailures(k)
                                        ELSE {ErrNoSiteConfig})
  /\ ops' = [ops EXCEPT ![t] =
               AfterChild(ops[t], k,
                          OnFetchError(k, WrapError(k, cause)))]
  /\ cache' = [cache EXCEPT ![k] =
                 IF cache[k] = NULL THEN NULL ELSE [cache[k] EXCEPT !.timestamp = now]]
  /\ UNCHANGED <<calc, trend, now, advances, configured, refreshTimer, invalidated, boundary>>

\* the upstream call of a get call fails: MaraApiService threw before
\* sending the request (no site configuration) or the request failed
FetchFail(t, k, cause) ==
  /\ Quiet
  /\ ops[t].sub[k].st = "pending"
  /\ cause \in (IF ops[t].sub[k].sent THEN RequestFailures(k)
                                        ELSE {ErrNoSiteConfig})
  /\ ops' = [ops EXCEPT ![t] =
               AfterChild(ops[t], k,
                          OnFetchError(k, WrapError(k, cause)))]
  /\ UNCHANGED <<calc, trend, now, advances, configured, cache, refreshTimer, invalidated, boundary>>

\* faulty variant of Resume: the rejection of a refresh callback is not caught
\* and takes the interval down with it
Resume_unhandled(t) ==
  /\ ops[t].phase = "settled"
  /\ ops' = [ops EXCEPT ![t] =
               IF PendingOf(ops[t]) = {} THEN IdleOp
               ELSE [ops[t] EXCEPT !.phase = "orphaned",
                                   !.sub = [k \in Kinds |->
                                              IF ops[t].sub[k].st = "pending"
                                                THEN ops[t].sub[k] ELSE NoSub]]]
  /\ refreshTimer' =
       (refreshTimer /\ ~(ops[t].type = "tick" /\ ops[t].res = "failed"))
  /\ UNCHANGED <<calc, trend, now, advances, configured, cache, invalidated, boundary>>

\* the caller's continuation after the operation's promise has settled
Resume(t) ==
  /\ ops[t].phase = "settled"
  /\ ops' = [ops EXCEPT ![t] =
               IF PendingOf(ops[t]) = {} THEN IdleOp
               ELSE [ops[t] EXCEPT !.phase = "orphaned",
                                   !.sub = [k \in Kinds |->
                                              IF ops[t].sub[k].st = "pending"
                                                THEN ops[t].sub[k] ELSE NoSub]]]
  /\ UNCHANGED <<calc, trend, now, advances, configured, cache, refreshTimer, invalidated, boundary>>

\* faulty variant of InvalidateSlots: 'all' forgets the machine status slot
InvalidateSlots_partial(type) ==
  [k \in Kinds |->
     IF (type = "all" /\ k # "machineStatus") \/ type = k THEN NULL ELSE cache[k]]

\* the cache after invalidateCache(type)
InvalidateSlots(type) ==
  [k \in Kinds |-> IF type = "all" \/ type = k THEN NULL ELSE cache[k]]

InvalidateCache(type) ==
  /\ Quiet
  /\ cache' = InvalidateSlots(type)
  /\ invalidated' = IF type = "all" THEN Kinds ELSE invalidated \cup {type}
  /\ UNCHANGED <<calc, trend, now, advances, configured, ops, refreshTimer, boundary>>

\* faulty variant of getCacheStatus: an expired entry is reported as not cached
getCacheStatus_validOnly(c, t) ==
  [k \in Kinds |->
     IF isCacheValid(c[k], t)
       THEN [cached |-> TRUE, age |-> t - c[k].timestamp, ttl |-> c[k].ttl]
       ELSE [cached |-> FALSE]]

\* the object getCacheStatus returns for the cache c at time t
getCacheStatus(c, t) ==
  [k \in Kinds |->
     IF c[k] # NULL
       THEN [cached |-> TRUE, age |-> t - c[k].timestamp, ttl |-> c[k].ttl]
       ELSE [cached |-> FALSE]]

\* a caller asks for the cache status; the call is synchronous
GetCacheStatus ==
  /\ Quiet
  /\ statusReport' = getCacheStatus(cache, now)
  /\ UNCHANGED <<calc, trend, now, advances, configured, cache, ops, refreshTimer,
                 invalidated, handlers, server>>

\* the caller goes on with the status it was given
TakeCacheStatus ==
  /\ statusReport # NoReport
  /\ statusReport' = NoReport
  /\ UNCHANGED <<calc, trend, now, advances, configured, cache, ops, refreshTimer,
                 invalidated, handlers, server>>

StartPeriodicRefresh ==
  /\ Quiet
  /\ ~refreshTimer
  /\ refreshTimer' = TRUE
  /\ UNCHANGED <<calc, trend, now, advances, configured, cache, ops, invalidated, boundary>>

\* clearInterval on the handle startPeriodicRefresh returned
ClearInterval ==
  /\ Quiet
  /\ refreshTimer
  /\ refreshTimer' = FALSE
  /\ UNCHANGED <<calc, trend, now, advances, configured, cache, ops, invalidated, boundary>>

----------------------------------------------------------------------------
(* ConfigManager *)

\* MaraApiService.createSite succeeded
SetSiteConfig ==
  /\ Quiet
  /\ configured' = TRUE
  /\ UNCHANGED <<calc, trend, now, advances, cache, ops, refreshTimer, invalidated, boundary>>

ClearSiteConfig ==
  /\ Quiet
  /\ configured' = FALSE
  /\ UNCHANGED <<calc, trend, now, advances, cache, ops, refreshTimer, invalidated, boundary>>

----------------------------------------------------------------------------
\* Date.now() moves on
AdvanceClock(d) ==
  /\ Quiet
  /\ advances < MaxAdvances
  /\ now' = now + d
  /\ advances' = advances + 1
  /\ UNCHANGED <<calc, trend, configured, cache, ops, refreshTimer, invalidated, boundary>>

----------------------------------------------------------------------------
(* Socket handlers, StartupService and updateMachineAllocation. They call   *)
(* MaraApiService directly; each await is a step boundary.                  *)

Alive == server.life # "exited"

NewHandler(kind, client, request) ==
  [IdleHandler EXCEPT !.kind = kind, !.client = client, !.request = request]

StartHandler(s, h) ==
  /\ Quiet
  /\ Alive
  /\ handlers[s].pc = "idle"
  /\ handlers' = [handlers EXCEPT ![s] = h]
  /\ UNCHANGED <<calc, trend, now, advances, configured, cache, ops, refreshTimer,
                 invalidated, statusReport, server>>

\* socket.on('request_machine_status') up to its first await
RequestMachineStatus(c) ==
  StartHandler("socket",
    LET h == NewHandler("request_machine_status", c, NoRequest)
    IN  IF ~configured
          THEN Done(Emit(h, "machine_status_error",
                         [message |-> "MARA API site not configured",
                          error |-> NoFailure]))
          ELSE Await(h, "getMachineStatus"))

\* socket.on('subscribe_updates') up to its first await
SubscribeUpdates(c) ==
  StartHandler("socket",
    LET h == Emit(NewHandler("subscribe_updates", c, NoRequest),
                  "subscription_confirmed",
                  [message |-> "Subscribed to real-time updates"])
    IN  IF configured THEN Await(h, "getMachineStatus") ELSE Done(h))

\* callback of startPeriodicUpdates' setInterval up to its first await
PeriodicUpdate ==
  /\ server.updateTimer
  /\ StartHandler("server",
       LET h == NewHandler("periodic_update", "", NoRequest)
       IN  IF configured THEN Await(h, "getMachineStatus") ELSE Done(h))

\* MaraApiService.updateMachineAllocation up to its first await, the
\* getInventory of validateMachineAllocation
StartAllocation(h) ==
  IF ~configured
    THEN OnHandlerError(h, AllocationError(
           [op |-> "", cause |-> ErrNoSiteConfig, overage |-> 0]))
    ELSE Await(h, "getInventory")

UpdateMachineAllocation(a) ==
  StartHandler("caller", StartAllocation(NewHandler("updateMachineAllocation", "", a)))

\* server.listen callback: StartupService.initialize up to its first await
Initialize ==
  /\ Quiet
  /\ Alive
  /\ server.boot = "listening"
  /\ handlers["server"].pc = "idle"
  /\ handlers' = [handlers EXCEPT !["server"] =
                    LET h == NewHandler("initialize", "", initialAllocation)
                    IN  IF ~configured THEN Done(h) ELSE StartAllocation(h)]
  /\ server' = [server EXCEPT !.boot = "initializing"]
  /\ UNCHANGED <<calc, trend, now, advances, configured, cache, ops, refreshTimer,
                 invalidated, statusReport>>

\* updateMachineAllocation after validateMachineAllocation has returned or
\* thrown e: the PUT is submitted unless validation threw
AfterValidation(h, e) ==
  IF e # NoFailure THEN OnHandlerError(h, AllocationError(e))
                   ELSE Await(h, "put")

Awaiting == {"getInventory", "put", "getMachineStatus", "getPrices"}

\* the upstream request the handler of source s awaits is answered, with
\* payload d where the handler uses the payload
UpstreamAnswers(s, d) ==
  LET h == handlers[s]
  IN  /\ Quiet
      /\ Alive
      /\ h.pc \in Awaiting
      /\ h.sent
      /\ handlers' = [handlers EXCEPT ![s] =
            CASE h.pc = "getInventory" ->
                   AfterValidation(h, ValidationError(PowerCheck(h.request, configured)))
              [] h.pc = "put" ->
                   IF h.kind = "initialize" THEN Await(h, "getMachineStatus")
                                            ELSE Done(h)
              [] h.pc = "getMachineStatus" ->
                   Await([h EXCEPT !.status = d], "getPrices")
              [] h.pc = "getPrices" ->
                   Done(Emit(h, "machine_status",
                             [type |-> IF h.kind = "subscribe_updates"
                                         THEN "machine_status_initial"
                                         ELSE "machine_status_update",
                              status |-> h.status,
                              analysis |-> AnalysisOf(h.status, d, configured)]))]
      /\ UNCHANGED <<calc, trend, now, advances, configured, cache, ops, refreshTimer,
                     invalidated, statusReport, server>>

\* the upstream call the handler of source s awaits fails: MaraApiService
\* threw before sending the request, or the request failed
UpstreamRejects(s, cause) ==
  LET h == handlers[s]
      e == [op |-> h.pc, cause |-> cause, overage |-> 0]
  IN  /\ Quiet
      /\ Alive
      /\ h.pc \in Awaiting
      /\ cause \in (IF ~h.sent THEN {ErrNoSiteConfig}
                    ELSE IF h.pc = "getPrices" THEN {ErrRequest, ErrNoPriceData}
                    ELSE {ErrRequest})
      /\ handlers' = [handlers EXCEPT ![s] =
            CASE h.pc = "getInventory" -> AfterValidation(h, ValidationError(e))
              [] h.pc = "put"          -> OnHandlerError(h, AllocationError(e))
              [] OTHER                 -> OnHandlerError(h, e)]
      /\ UNCHANGED <<calc, trend, now, advances, configured, cache, ops, refreshTimer,
                     invalidated, statusReport, server>>

\* the handler has returned; after initialize the server starts the
\* periodic updates
FinishHandler(s) ==
  /\ handlers[s].pc = "done"
  /\ handlers' = [handlers EXCEPT ![s] = IdleHandler]
  /\ server' = IF handlers[s].kind = "initialize"
                 THEN [server EXCEPT !.boot = "started", !.updateTimer = TRUE]
                 ELSE server
  /\ UNCHANGED <<calc, trend, now, advances, configured, cache, ops, refreshTimer,
                 invalidated, statusReport>>

\* SIGTERM or SIGINT: server.close is called, nothing else
Sigterm ==
  /\ Quiet
  /\ server.life = "up"
  /\ server' = [server EXCEPT !.life = "closing"]
  /\ UNCHANGED <<calc, trend, now, advances, configured, cache, ops, refreshTimer,
                 invalidated, statusReport, handlers>>

\* callback of server.close: process.exit(0) ends every handler and timer
ServerClosed ==
  /\ Quiet
  /\ server.life = "closing"
  /\ server' = [server EXCEPT !.life = "exited", !.updateTimer = FALSE]
  /\ handlers' = [s \in Sources |-> IdleHandler]
  /\ UNCHANGED <<calc, trend, now, advances, configured, cache, ops, refreshTimer,
                 invalidated, statusReport>>

(* The calculators are applied to the call at hand; they read and write   *)
(* nothing else.                                                          *)

Apply(fn, result) ==
  /\ calc.fn = fn
  /\ ~calc.applied
  /\ calc' = [calc EXCEPT !.applied = TRUE, !.result = result]
  /\ UNCHANGED <<trend, now, advances, configured, cache, ops, refreshTimer,
                 invalidated, boundary>>

DetermineArbitrageChoice ==
  Apply("determineArbitrageChoice",
        determineArbitrageChoice(calc.args.miningProfit, calc.args.computingProfit,
                                 calc.args.miningPower, calc.args.computingPower))

CalculateROI ==
  Apply("calculateROI",
        calculateROI(calc.args.powerUsed, calc.args.revenue, calc.args.energyPrice))

CalculateAnalysis ==
  Apply("calculateAnalysis",
        calculateAnalysis(calc.args.status, calc.args.prices, calc.args.siteConfig))

CalculateMiningMetrics ==
  Apply("calculateMiningMetrics",
        calculateMiningMetrics(calc.args.airMinersRevenue, calc.args.hydroMinersRevenue,
                               calc.args.immersionMinersRevenue, calc.args.airMinersPower,
                               calc.args.hydroMinersPower, calc.args.immersionMinersPower,
                               calc.args.energyPrice))

CalculateComputingMetrics ==
  Apply("calculateComputingMetrics",
        calculateComputingMetrics(calc.args.gpuComputeRevenue, calc.args.asicComputeRevenue,
                                  calc.args.gpuComputePower, calc.args.asicComputePower,
                                  calc.args.energyPrice))

RankMachinesByProfitability ==
  Apply("rankMachinesByProfitability", rankMachinesByProfitability(calc.args.analysis))

GenerateRecommendations ==
  Apply("generateRecommendations",
        generateRecommendations(calc.args.analysis, calc.args.inventory,
                                calc.args.powerCapacityRemaining))

DetermineMachineReallocation ==
  Apply("determineMachineReallocation", determineMachineReallocation(calc.args.analysis))

\* the analysis calculateAnalysis returned is handed to the decision engine
PassOn(fn) ==
  /\ calc.fn = "calculateAnalysis"
  /\ calc.applied
  /\ calc' = [Call(fn, [analysis |-> calc.result]) EXCEPT !.origin = calc.args.status]
  /\ UNCHANGED <<trend, now, advances, configured, cache, ops, refreshTimer,
                 invalidated, boundary>>

----------------------------------------------------------------------------
\* operations of the callers in slots T, with the payloads, failures and
\* clock steps the environment can produce
CallerStep(T) ==
  \/ \E t \in T, k \in Kinds, f \in BOOLEAN : Get(t, k, f)
  \/ \E t \in T, f \in BOOLEAN : GetAllData(t, f)
  \/ \E t \in T : WarmupCache(t)
  \/ \E type \in Kinds \cup {"all"} : InvalidateCache(type)

UpstreamStep(T) ==
  \/ \E t \in T, k \in Kinds, d \in Data : FetchSucceed(t, k, d)
  \/ \E t \in T, k \in Kinds :
       \E c \in {ErrNoSiteConfig, ErrRequest, ErrNoPriceData} : FetchFail(t, k, c)
  \/ \E t \in T : Resume(t)

ConfigStep ==
  \/ SetSiteConfig
  \/ ClearSiteConfig

TimerStep(T) ==
  \/ StartPeriodicRefresh
  \/ ClearInterval
  \/ \E t \in T : RefreshTick(t)

ClockStep == \E d \in ClockSteps : AdvanceClock(d)

\* one caller at a time; the cache can be invalidated, the configuration
\* changed and the clock advanced while its upstream calls are in flight
Next ==
  \/ CallerStep({1})
  \/ UpstreamStep({1})
  \/ ConfigStep
  \/ ClockStep

Spec == Init /\ [][Next]_vars

\* the Refresher alone: the timer is started and cleared, its callback runs,
\* and between ticks slots are invalidated, the configuration changes and
\* the clock advances
NextRefresher ==
  \/ TimerStep({1})
  \/ UpstreamStep({1})
  \/ \E type \in Kinds \cup {"all"} : InvalidateCache(type)
  \/ ConfigStep
  \/ ClockStep

SpecRefresher == Init /\ [][NextRefresher]_vars

\* two callers at once: get calls, forced (as the refresh callback issues
\* them) or not, overlap in both slots while slots are invalidated and the
\* clock advances
NextConcurrent ==
  \/ \E t \in {1, 2}, k \in Kinds, f \in BOOLEAN : Get(t, k, f)
  \/ UpstreamStep({1, 2})
  \/ \E type \in Kinds \cup {"all"} : InvalidateCache(type)
  \/ ClockStep

SpecConcurrent == Init /\ [][NextConcurrent]_vars

\* monitoring: the cache status is read between the steps of get calls,
\* invalidations, configuration changes and clock steps
StatusStep ==
  \/ GetCacheStatus
  \/ TakeCacheStatus

NextStatus ==
  \/ \E k \in Kinds, f \in BOOLEAN : Get(1, k, f)
  \/ UpstreamStep({1})
  \/ \E type \in Kinds \cup {"all"} : InvalidateCache(type)
  \/ ConfigStep
  \/ ClockStep
  \/ StatusStep

SpecStatus == Init /\ [][NextStatus]_vars

\* steps of the handlers of the sources S
HandlerStep(S) ==
  \/ \E s \in S, d \in Data : UpstreamAnswers(s, d)
  \/ \E s \in S, c \in {ErrNoSiteConfig, ErrRequest, ErrNoPriceData} :
       UpstreamRejects(s, c)
  \/ \E s \in S : FinishHandler(s)

SocketStep ==
  \/ \E c \in Clients : RequestMachineStatus(c)
  \/ \E c \in Clients : SubscribeUpdates(c)

ServerStep ==
  \/ Initialize
  \/ PeriodicUpdate

ProcessStep ==
  \/ Sigterm
  \/ ServerClosed

\* the serving process: start-up, clients, periodic updates, shutdown
NextBroadcast ==
  \/ SocketStep
  \/ ServerStep
  \/ HandlerStep({"socket", "server"})
  \/ ConfigStep
  \/ ProcessStep

SpecBroadcast == Init /\ [][NextBroadcast]_vars

\* callers of updateMachineAllocation while the configuration changes
NextAllocation ==
  \/ \E a \in Requests : UpdateMachineAllocation(a)
  \/ HandlerStep({"caller"})
  \/ ConfigStep

SpecAllocation == Init /\ [][NextAllocation]_vars

\* the data flow: get calls fill the cache and the clock advances while
\* clients ask for the machine status and the periodic update runs
NextDataFlow ==
  \/ \E k \in {"machineStatus", "prices"} : Get(1, k, FALSE)
  \/ UpstreamStep({1})
  \/ ClockStep
  \/ SocketStep
  \/ ServerStep
  \/ HandlerStep({"socket", "server"})

SpecDataFlow == Init /\ [][NextDataFlow]_vars

\* the calculators: one call, of any function on any of its inputs, is at
\* hand from the start; an analysis calculated can be handed on to be ranked
\* or searched for a reallocation
InitEngine ==
  /\ InitService
  /\ calc \in CalculatorCalls
  /\ trend = NoTrend

EngineStep ==
  \/ DetermineArbitrageChoice
  \/ CalculateROI
  \/ CalculateAnalysis
  \/ CalculateMiningMetrics
  \/ CalculateComputingMetrics
  \/ RankMachinesByProfitability
  \/ GenerateRecommendations
  \/ DetermineMachineReallocation

NextEngine ==
  \/ EngineStep
  \/ \E fn \in {"rankMachinesByProfitability", "determineMachineReallocation"} :
       PassOn(fn)

SpecEngine == InitEngine /\ [][NextEngine]_vars

\* one run of getProfitabilityTrend, for any number of samples and any
\* answers of its reads
NextTrend ==
  \/ \E samples \in 0..MaxSamples, intervalMinutes \in {0, 2} :
       GetProfitabilityTrend(samples, intervalMinutes)
  \/ \E analysis \in TrendAnalyses : AnalysisReturns(analysis)
  \/ \E e \in {ErrNoSiteConfig, ErrRequest} : AnalysisFails(e)
  \/ TimerFires

SpecTrend == Init /\ [][NextTrend]_vars

----------------------------------------------------------------------------
(* Vocabulary of the properties *)

\* an operation starts in slot t in this step
Started(t) == ops[t].phase = "idle" /\ ops'[t].phase # "idle"

\* the operation started in slot t calls get<k>
Calls(t, k) == Started(t) /\ ops'[t].sub[k].st # "none"

\* slot k holds an entry younger than its time to live
SlotValid(k) ==
  IF cache[k] = NULL THEN FALSE ELSE now - cache[k].timestamp < cache[k].ttl

\* the upstream call of get<k> in slot t fails in this step
FetchFails(t, k) ==
  /\ ops[t].phase = "running"
  /\ ops[t].sub[k].st = "pending"
  /\ ops'[t].sub[k].st \in {"stale", "raised"}

\* an upstream request for kind k issued from slot t is answered in this
\* step, whether or not the operation still waits for it
RequestEnds(t, k) ==
  /\ ops[t].sub[k].st = "pending"
  /\ ops[t].sub[k].sent
  /\ ops'[t].sub[k].st # "pending"

\* the upstream call of get<k> in slot t succeeds in this step
FetchSucceeds(t, k) ==
  /\ ops[t].phase = "running"
  /\ ops[t].sub[k].st = "pending"
  /\ ops'[t].sub[k].st = "fresh"

----------------------------------------------------------------------------
\* C1: a get<k>(forceRefresh=false) that starts while slot k holds an entry
\* with now - timestamp < ttl returns that entry's data at once and issues no
\* upstream call for k.
C1_ValidEntryServedWithoutUpstream ==
  [][\A t \in OpIds, k \in Kinds :
       (Calls(t, k) /\ ops'[t].type \in {"get", "getAll"} /\ ~ops'[t].force
          /\ SlotValid(k))
       => /\ ops'[t].sub[k] = Cached(cache[k].data)
          /\ ops'[t].type = "get" =>
               /\ ops'[t].phase = "settled"
               /\ ops'[t].res = "ok"
               /\ ops'[t].ret[k] = cache[k].data]_vars

C1_Witness ==
  \E t \in OpIds, k \in Kinds :
    /\ ops[t].type = "get" /\ ~ops[t].force /\ ops[t].phase = "settled"
    /\ ops[t].sub[k].st = "cached"
    /\ cache[k] # NULL /\ now > cache[k].timestamp

\* C2: when the upstream call of a get<k> fails while slot k holds an entry,
\* valid or expired, the call returns that entry's data and does not raise;
\* forced and non-forced calls alike.
C2_StaleEntryServedOnFailure ==
  [][\A t \in OpIds, k \in Kinds :
       (FetchFails(t, k) /\ cache[k] # NULL)
       => /\ ops'[t].sub[k] = Stale(cache[k].data)
          /\ ops'[t].res # "failed"
          /\ ops'[t].type = "get" =>
               /\ ops'[t].res = "ok"
               /\ ops'[t].ret[k] = cache[k].data]_vars

C2_Witness ==
  \E t \in OpIds, k \in Kinds :
    /\ ops[t].type = "get" /\ ops[t].force /\ ops[t].res = "ok"
    /\ ops[t].sub[k].st = "stale"
    /\ cache[k] # NULL /\ now - cache[k].timestamp >= cache[k].ttl

\* C3: when the upstream call of a get<k> fails while slot k is empty, the
\* call fails with the error of the upstream client, which names the failed
\* call and carries its cause, and slot k stays empty.
C3_EmptySlotRaisesUpstreamError ==
  [][\A t \in OpIds, k \in Kinds :
       (FetchFails(t, k) /\ cache[k] = NULL)
       => /\ ops'[t].sub[k].st = "raised"
          /\ ops'[t].sub[k].err.op = k
          /\ ops'[t].sub[k].err.cause \in
               (IF ops[t].sub[k].sent
                  THEN IF k = "prices"
                         THEN {ErrRequest, ErrNoPriceData} ELSE {ErrRequest}
                  ELSE {ErrNoSiteConfig})
          /\ ops'[t].res = "failed"
          /\ ops'[t].err = ops'[t].sub[k].err
          /\ cache'[k] = NULL]_vars

C3_Witness ==
  \E t \in OpIds :
    /\ ops[t].type = "get" /\ ops[t].res = "failed"
    /\ ops[t].sub["prices"].st = "raised"
    /\ ops[t].err = [op |-> "prices", cause |-> ErrNoPriceData]
    /\ cache["prices"] = NULL

\* C4: a get<k>(forceRefresh=true) issues an upstream call for k whatever
\* slot k holds: nothing, a valid entry or an expired one.
C4_ForcedGetCallsUpstream ==
  [][\A t \in OpIds, k \in Kinds :
       (Calls(t, k) /\ ops'[t].force)
       => /\ ops'[t].sub[k].st = "pending"
          /\ ops'[t].phase = "running"]_vars

C4_Witness ==
  \E t \in OpIds, k \in Kinds :
    /\ ops[t].type = "get" /\ ops[t].force
    /\ ops[t].sub[k].st = "pending"
    /\ SlotValid(k)

\* C5: a get<k>(forceRefresh=false) that starts while slot k is empty or
\* holds an entry with now - timestamp >= ttl issues an upstream call for k.
C5_InvalidSlotCallsUpstream ==
  [][\A t \in OpIds, k \in Kinds :
       (Calls(t, k) /\ ~ops'[t].force /\ ~SlotValid(k))
       => /\ ops'[t].sub[k].st = "pending"
          /\ ops'[t].phase = "running"]_vars

\* a non-forced call is in flight for a slot whose entry is exactly ttl old
C5_Witness ==
  \E t \in OpIds, k \in Kinds :
    /\ ops[t].type = "get" /\ ~ops[t].force
    /\ ops[t].sub[k].st = "pending"
    /\ cache[k] # NULL /\ now - cache[k].timestamp = cache[k].ttl

\* C6: a successful upstream fetch of get<k> leaves slot k holding the
\* fetched value with timestamp = the time of the replacement, and the call
\* returns that value; every non-empty slot has its kind's fixed ttl
\* (inventory 30 min, prices 5 min, machine status 2 min).
C6_FixedTtl ==
  \A k \in Kinds :
    cache[k] # NULL =>
      cache[k].ttl = (CASE k = "inventory"     -> 1800000
                        [] k = "prices"        -> 300000
                        [] k = "machineStatus" -> 120000)

C6_SuccessReplacesSlot ==
  /\ []C6_FixedTtl
  /\ [][\A t \in OpIds, k \in Kinds :
          FetchSucceeds(t, k)
          => /\ cache'[k] # NULL
             /\ cache'[k].data = ops'[t].sub[k].val
             /\ cache'[k].data \in Data
             /\ cache'[k].timestamp = now'
             /\ ops'[t].type = "get" =>
                  /\ ops'[t].res = "ok"
                  /\ ops'[t].ret[k] = cache'[k].data]_vars

\* a call has just replaced an older entry by a different value
C6_Witness ==
  \E t \in OpIds, k \in Kinds :
    /\ ops[t].type = "get" /\ ops[t].phase = "settled"
    /\ ops[t].sub[k].st = "fresh"
    /\ now > 0 /\ cache[k] # NULL /\ cache[k].timestamp = now
    /\ cache[k].data = "b"

\* C7: getAllData settles with the three values of its get calls once each
\* of them has returned (from a valid entry, a fetch or a stale entry); it
\* fails exactly when the upstream call of one of them fails while that
\* kind's slot is empty, with that call's error; a stale value never makes
\* it fail.
C7_GetAllJoinsTheThreeCalls ==
  [][\A t \in OpIds :
       (ops'[t].type = "getAll" /\ ops[t].phase \in {"idle", "running"}
          /\ ops'[t] # ops[t])
       => LET emptyFail ==
                {k \in Kinds : /\ ops[t].sub[k].st = "pending"
                               /\ ops'[t].sub[k].st \notin {"pending", "fresh"}
                               /\ cache[k] = NULL}
          IN  /\ (ops'[t].res = "failed") <=> (emptyFail # {})
              /\ emptyFail # {} =>
                   \E k \in emptyFail : /\ ops'[t].err = ops'[t].sub[k].err
                                        /\ ops'[t].err.op = k
              /\ (ops'[t].res = "ok") <=>
                   (\A k \in Kinds : ops'[t].sub[k].st \in {"cached", "fresh", "stale"})
              /\ ops'[t].res = "ok" =>
                   /\ ops'[t].phase = "settled"
                   /\ \A k \in Kinds : /\ ops'[t].ret[k] = ops'[t].sub[k].val
                                       /\ ops'[t].ret[k] \in Data]_vars

\* getAllData has resolved with one stale and one freshly fetched value
C7_Witness ==
  \E t \in OpIds :
    /\ ops[t].type = "getAll" /\ ops[t].phase = "settled" /\ ops[t].res = "ok"
    /\ \E k \in Kinds : ops[t].sub[k].st = "stale"
    /\ \E k \in Kinds : ops[t].sub[k].st = "fresh"

\* C8: after invalidateCache the named slots are empty; until a fetch of
\* kind k succeeds again, every get<k>, also with forceRefresh=false, issues
\* an upstream call, and if that call fails it raises instead of serving
\* what was cached before.
C8_Emptied == \A k \in invalidated : cache[k] = NULL

C9_UnconfiguredAlwaysFails ==
  [][\A t \in OpIds, k \in Kinds :
       /\ (Calls(t, k) /\ ~configured) => ops'[t].sub[k].st = "pending"
       /\ (ops[t].phase = "running" /\ ops[t].sub[k].st = "pending"
             /\ ~ops[t].sub[k].sent /\ ops'[t].sub[k].st # "pending")
            => ops'[t].sub[k].st = "raised"]_vars

\* C9 amended: while no site is configured no get call sends a request: the
\* upstream client fails each call with the missing-configuration error, and
\* the operation fails with that error when the slot is then empty; an entry
\* in the slot is served instead (a valid one without any upstream call).
C9_UnconfiguredNeverSendsRequest ==
  [][\A t \in OpIds, k \in Kinds :
       /\ (Calls(t, k) /\ ~configured)
            => /\ ops'[t].sub[k].st \in {"pending", "cached"}
               /\ ops'[t].sub[k].st = "pending" => ~ops'[t].sub[k].sent
               /\ ops'[t].sub[k].st = "cached" => (~ops'[t].force /\ SlotValid(k))
       /\ (ops[t].phase = "running" /\ ops[t].sub[k].st = "pending"
             /\ ~ops[t].sub[k].sent /\ ops'[t].sub[k].st # "pending")
            => IF cache[k] = NULL
                 THEN /\ ops'[t].sub[k].st = "raised"
                      /\ ops'[t].res = "failed"
                      /\ ops'[t].err = [op |-> k, cause |-> ErrNoSiteConfig]
                 ELSE ops'[t].sub[k] = Stale(cache[k].data)]_vars

\* without a configuration, warmupCache has failed with the missing-
\* configuration error while another slot still holds an entry
C9_Witness ==
  \E t \in OpIds :
    /\ ~configured
    /\ ops[t].type = "warmup" /\ ops[t].res = "failed"
    /\ ops[t].err.cause = ErrNoSiteConfig
    /\ \E k \in Kinds : cache[k] # NULL

\* C10: a tick of the periodic refresh issues an upstream call for kind k
\* exactly when slot k is empty or expired at the tick; with three valid
\* slots it issues none.
C10_TickRefreshesInvalidSlotsOnly ==
  [][\A t \in OpIds :
       (Started(t) /\ ops'[t].type = "tick")
       => /\ \A k \in Kinds :
               IF SlotValid(k) THEN ops'[t].sub[k].st = "none"
                               ELSE ops'[t].sub[k].st = "pending"
          /\ (\A k \in Kinds : SlotValid(k)) => ops'[t].phase = "settled"]_vars

\* a tick refreshes one expired slot and leaves a valid one alone
C10_Witness ==
  \E t \in OpIds :
    /\ ops[t].type = "tick" /\ ops[t].phase = "running"
    /\ \E k \in Kinds : ops[t].sub[k].st = "none" /\ SlotValid(k)
    /\ \E k \in Kinds : /\ ops[t].sub[k].st = "pending"
                        /\ cache[k] # NULL
                        /\ now - cache[k].timestamp >= cache[k].ttl

\* C11: a refresh tick that fails (a get call of it rejects) does not stop
\* the periodic task: no step of a tick, failing or not, changes the timer,
\* and whenever the timer is active and the callback's slot is free the next
\* tick can fire; what each tick then refreshes is stated by C10.
C11_FailedTickKeepsTimer ==
  /\ [](refreshTimer /\ Quiet /\ ops[1].phase = "idle" => ENABLED RefreshTick(1))
  /\ [][\A t \in OpIds :
          (ops[t].type = "tick" /\ ops'[t] # ops[t])
          => refreshTimer' = refreshTimer]_vars

\* a tick has failed on an empty slot and the timer is still active
C11_Witness ==
  \E t \in OpIds, k \in Kinds :
    /\ ops[t].type = "tick" /\ ops[t].phase = "settled" /\ ops[t].res = "failed"
    /\ ops[t].sub[k].st = "raised"
    /\ refreshTimer

\* a whole entry of kind k: the three fields and nothing else
C12_WholeEntry(e, k) ==
  /\ DOMAIN e = {"data", "timestamp", "ttl"}
  /\ e.data \in Data
  /\ e.timestamp \in 0..now
  /\ e.ttl = DEFAULT_TTL[k]

\* C12: with the get calls of two callers (forced, as the refresh callback
\* issues them, or not) and invalidations interleaved, every
\* slot is empty or holds one whole entry: its data, timestamp and ttl are
\* written in the same step, the step in which one upstream request for that
\* kind is answered, with the payload of that answer, the time of that step
\* and the ttl of the kind; no step writes a part of an entry.
C12_EntriesWrittenWhole ==
  /\ [](\A k \in Kinds : cache[k] = NULL \/ C12_WholeEntry(cache[k], k))
  /\ [][\A k \in Kinds :
          (cache'[k] # cache[k] /\ cache'[k] # NULL)
          => /\ cache'[k].timestamp = now
             /\ cache'[k].ttl = DEFAULT_TTL[k]
             /\ \E t \in OpIds :
                  /\ RequestEnds(t, k)
                  /\ ops[t].phase = "running" =>
                       ops'[t].sub[k] = Fresh(cache'[k].data)]_vars

\* one caller has replaced slot k, after the clock has advanced, while a get
\* call of the other caller for the same kind is still in flight
C12_Witness ==
  \E k \in Kinds :
    /\ cache[k] # NULL /\ cache[k].timestamp > 0
    /\ ops[1].type = "get" /\ ops[1].sub[k].st = "fresh"
    /\ ops[2].type = "get" /\ ops[2].sub[k].st = "pending"

\* C13: updateMachineAllocation never submits the PUT /machines request for
\* an allocation whose total power (units times inventory power, summed
\* over the machine types) exceeds the site's power limit; the call fails,
\* and the error of the power validation carries the overage in watts.
C13_NoSubmissionOverLimit ==
  \A s \in Sources :
    LET h == handlers[s]
    IN  (h.kind = "updateMachineAllocation" /\ totalPower(h.request) > SitePower)
        => /\ ~h.submitted
           /\ h.pc = "done" =>
                /\ h.failed
                /\ h.err.cause = ErrPowerLimit =>
                     h.err.overage = totalPower(h.request) - SitePower

\* C14: a handler of the broadcast layer (request_machine_status,
\* subscribe_updates, initialize, periodic update) that ends in its catch
\* block has emitted an error event carrying the error it caught.
C14_ErrorsBecomeErrorEvents ==
  \A s \in {"socket", "server"} :
    LET h == handlers[s]
    IN  (h.pc = "done" /\ h.failed)
        => \E i \in DOMAIN h.events :
             /\ h.events[i].name \in {"machine_status_error", "startup_error"}
             /\ h.events[i].payload.error = h.err

\* the machine_status events a handler run has emitted
C15_Emitted(h) == SelectSeq(h.events, LAMBDA e : e.name = "machine_status")

\* the handlers C15 is about
C15_Kinds == {"request_machine_status", "subscribe_updates", "periodic_update"}

\* C15: a request_machine_status, a subscribe_updates and a periodic update
\* that start on a configured site await the machine status and the prices;
\* when both are fetched the run emits one machine_status event, to the
\* requesting socket respectively to all clients, carrying the fetched
\* status, its analysis at the fetched prices and the arbitrage decision;
\* no run emits a second machine_status event, and none without both fetches.
C15_OneMachineStatusPerTrigger ==
  /\ [](\A s \in {"socket", "server"} :
          LET h == handlers[s]
              e == C15_Emitted(h)
          IN  h.kind \in C15_Kinds =>
                /\ Len(e) <= 1
                /\ Len(e) = 1 <=> (h.pc = "done" /\ ~h.failed /\ h.status # NoData)
                /\ Len(e) = 1 =>
                     /\ e[1].to = (IF s = "socket" THEN h.client ELSE "all")
                     /\ e[1].payload.status = h.status
                     /\ e[1].payload.analysis.arbitrage.status = h.status
                     /\ e[1].payload.analysis.currentPrices \in Data)
  /\ [][\A s \in {"socket", "server"} :
          LET h == handlers[s]
              g == handlers'[s]
          IN  /\ (h.pc = "idle" /\ g.kind \in C15_Kinds /\ configured)
                   => g.pc = "getMachineStatus" /\ g.sent
              /\ (h.kind \in C15_Kinds /\ h.pc = "getPrices" /\ g.pc = "done"
                     /\ ~g.failed)
                   => /\ Len(g.events) = Len(h.events) + 1
                      /\ g.events[Len(g.events)].name = "machine_status"
                      /\ g.events[Len(g.events)].payload.analysis.currentPrices
                           \in Data]_vars

\* a subscription of client c2 has been confirmed and answered with the
\* machine status while a periodic update is in flight
C15_Witness ==
  /\ handlers["socket"].kind = "subscribe_updates"
  /\ handlers["socket"].pc = "done"
  /\ Len(handlers["socket"].events) = 2
  /\ handlers["socket"].events[2].name = "machine_status"
  /\ handlers["socket"].events[2].to = "c2"
  /\ handlers["server"].kind = "periodic_update"
  /\ handlers["server"].pc = "getPrices"

\* C16: once the process has been told to terminate (SIGTERM or SIGINT) the
\* periodic task is cancelled: no further tick starts and none issues an
\* upstream call.
C16_NoTickAfterTermination ==
  [][(handlers["server"].pc = "idle"
        /\ handlers'["server"].kind = "periodic_update")
     => server.life = "up"]_vars

\* the callers whose upstream call for kind k is in flight
C17_InFlight(o, k) == {u \in OpIds : o[u].sub[k].st = "pending"}

\* C17: a get<k> that starts forced or on an invalid slot while upstream
\* calls for k of other callers are in flight issues its own upstream call
\* and leaves theirs in flight: with n such callers n calls are in flight.
C17_ConcurrentGetsNotDeduplicated ==
  [][\A t \in OpIds, k \in Kinds :
       (Calls(t, k) /\ ops'[t].type = "get"
          /\ (ops'[t].force \/ ~SlotValid(k))
          /\ C17_InFlight(ops, k) # {})
       => /\ ops'[t].sub[k].st = "pending"
          /\ C17_InFlight(ops', k) = C17_InFlight(ops, k) \cup {t}
          /\ Cardinality(C17_InFlight(ops', k))
               = Cardinality(C17_InFlight(ops, k)) + 1]_vars

\* two callers wait for their own upstream call for the same kind, one of
\* them not forced
C17_Witness ==
  \E k \in Kinds :
    /\ C17_InFlight(ops, k) = {1, 2}
    /\ ops[1].type = "get" /\ ops[2].type = "get"
    /\ ~ops[2].force
    /\ ops[1].sub[k].sent /\ ops[2].sub[k].sent

\* C18: a slot goes from empty to an entry, and from one entry to another,
\* only in a step in which an upstream request of its kind is answered
\* successfully, and then the whole entry is new; it goes from an entry to
\* empty only in an invalidateCache step (no operation moves, the kind is
\* recorded as invalidated); starting an operation, a failing upstream
\* call, a change of configuration and the clock change no slot.
C18_SlotLifecycle ==
  [][\A k \in Kinds :
       /\ (cache'[k] # cache[k] /\ cache'[k] # NULL)
          => /\ \E t \in OpIds, d \in Data :
                  /\ RequestEnds(t, k)
                  /\ ops[t].phase = "running" => FetchSucceeds(t, k)
                  /\ cache'[k] = [data |-> d, timestamp |-> now,
                                   ttl |-> DEFAULT_TTL[k]]
             /\ \A j \in Kinds \ {k} : cache'[j] = cache[j]
       /\ (cache[k] # NULL /\ cache'[k] = NULL)
          => /\ ops' = ops
             /\ k \in invalidated'
       /\ ((\E t \in OpIds : Started(t) \/ FetchFails(t, k))
            \/ now' # now \/ configured' # configured)
          => cache' = cache]_vars

\* a slot has been filled by a successful fetch after the clock has advanced
\* while another slot, invalidated before, is empty
C18_Witness ==
  \E k \in Kinds, j \in Kinds :
    /\ ops[1].sub[k].st = "fresh"
    /\ cache[k] # NULL /\ cache[k].timestamp > 0
    /\ j # k /\ cache[j] = NULL /\ j \in invalidated

\* the operations C19 compares: warmupCache and getAllData(true)
C19_Forced(op) ==
  op.type = "warmup" \/ (op.type = "getAll" /\ op.force)

\* C19: warmupCache and getAllData(true) go through the same steps. Started
\* in the same state, each issues one upstream call per kind whatever the
\* slots hold; each answer changes the cache in the same way (a success
\* replaces the slot of its kind, a failure changes nothing); each fails
\* exactly when a call fails on an empty slot, with that call's error, and
\* succeeds once the three calls have returned. They differ only in the
\* value: getAllData resolves with the three values, warmupCache with none.
C19_WarmupIsForcedGetAll ==
  [][\A t \in OpIds :
       (C19_Forced(ops'[t]) /\ ops[t].phase \in {"idle", "running"}
          /\ ops'[t] # ops[t])
       => LET emptyFail ==
                {k \in Kinds : /\ ops[t].sub[k].st = "pending"
                               /\ ops'[t].sub[k].st \notin {"pending", "fresh"}
                               /\ cache[k] = NULL}
          IN  /\ Started(t) =>
                   /\ ops'[t].force
                   /\ ops'[t].phase = "running"
                   /\ \A k \in Kinds : ops'[t].sub[k] = Pending(configured)
                   /\ cache' = cache
              /\ \A k \in Kinds :
                   /\ FetchSucceeds(t, k) =>
                        cache' = [cache EXCEPT ![k] =
                                    [data |-> ops'[t].sub[k].val,
                                     timestamp |-> now, ttl |-> DEFAULT_TTL[k]]]
                   /\ FetchFails(t, k) => cache' = cache
              /\ (ops'[t].res = "failed") <=> (emptyFail # {})
              /\ emptyFail # {} =>
                   \E k \in emptyFail : /\ ops'[t].err = ops'[t].sub[k].err
                                        /\ ops'[t].err.op = k
              /\ (ops'[t].res = "ok") <=>
                   (\A k \in Kinds : ops'[t].sub[k].st \in {"fresh", "stale"})
              /\ ops'[t].res = "ok" =>
                   ops'[t].ret = IF ops'[t].type = "warmup" THEN NoRet
                                 ELSE [k \in Kinds |-> ops'[t].sub[k].val]]_vars

\* warmupCache has issued an upstream call for a slot that holds a valid
\* entry, and has already failed on another, empty slot
C19_Witness ==
  \E t \in OpIds, k \in Kinds, j \in Kinds :
    /\ ops[t].type = "warmup" /\ ops[t].res = "failed"
    /\ ops[t].sub[k].st = "pending" /\ SlotValid(k)
    /\ ops[t].sub[j].st = "raised" /\ ops[t].err = ops[t].sub[j].err

\* what the status in hand says about kind k, against the slot
C20_ReportOf(k) ==
  IF cache[k] = NULL
    THEN /\ DOMAIN statusReport[k] = {"cached"}
         /\ ~statusReport[k].cached
    ELSE /\ DOMAIN statusReport[k] = {"cached", "age", "ttl"}
         /\ statusReport[k].cached
         /\ statusReport[k].age = now - cache[k].timestamp
         /\ statusReport[k].age >= 0
         /\ statusReport[k].ttl = cache[k].ttl

\* C20: getCacheStatus reports, for each kind, cached = TRUE exactly when
\* the slot holds an entry, expired or not, with age = now - timestamp, never
\* negative, and the entry's ttl; for an empty slot cached = FALSE and
\* neither age nor ttl; the call issues no upstream call, starts no
\* operation and changes no slot.
C20_CacheStatusReportsSlots ==
  /\ [](statusReport # NoReport =>
          /\ DOMAIN statusReport = Kinds
          /\ \A k \in Kinds : C20_ReportOf(k))
  /\ [][statusReport' # statusReport =>
          /\ cache' = cache
          /\ ops' = ops
          /\ now' = now]_vars

\* the status reports an expired entry as cached, a fresh one with age 0 and
\* an empty slot as not cached, while an upstream call is in flight
C20_Witness ==
  /\ statusReport # NoReport
  /\ \E k \in Kinds : statusReport[k].cached /\ statusReport[k].age >= statusReport[k].ttl
  /\ \E k \in Kinds : statusReport[k].cached /\ statusReport[k].age = 0
  /\ \E k \in Kinds : ~statusReport[k].cached /\ ops[1].sub[k].st = "pending"

----------------------------------------------------------------------------
(* The calculators *)

\* a call of fn has been applied
Applied(fn) == calc.fn = fn /\ calc.applied

\* profit per kW as a fraction of two integers: 1000 * profit / power for a
\* positive power, 0 otherwise (profits and powers are whole numbers here)
C21_PerKw(profit, power) ==
  IF power.num > 0 THEN Num(1000 * profit.num, power.num) ELSE Whole(0)

\* side a is ahead of side b by more than a tenth: a > 1.1 * b
C21_Ahead(a, b) == 10 * a.num * b.den > 11 * b.num * a.den

\* C21: determineArbitrageChoice returns mining exactly when the mining
\* profit per kW is greater than 1.1 times the computing profit per kW,
\* otherwise computing exactly when the computing profit per kW is greater
\* than 1.1 times the mining one, and mixed otherwise; the inputs
\* (1000, 500, 500000, 300000) give mining
C21_ThresholdDecides ==
  Applied("determineArbitrageChoice") =>
    LET m == C21_PerKw(calc.args.miningProfit, calc.args.miningPower)
        c == C21_PerKw(calc.args.computingProfit, calc.args.computingPower)
    IN  /\ calc.result.choice \in {"mining", "computing", "mixed"}
        /\ calc.result.choice = "mining" <=> C21_Ahead(m, c)
        /\ calc.result.choice = "computing" <=> ~C21_Ahead(m, c) /\ C21_Ahead(c, m)
        /\ calc.args = [miningProfit |-> Whole(1000), computingProfit |-> Whole(500),
                        miningPower |-> Whole(500000), computingPower |-> Whole(300000)]
             => calc.result.choice = "mining"

\* the inputs (1000, 500, 500000, 300000) have been decided for mining
C21_Witness ==
  /\ Applied("determineArbitrageChoice")
  /\ calc.args = [miningProfit |-> Whole(1000), computingProfit |-> Whole(500),
                  miningPower |-> Whole(500000), computingPower |-> Whole(300000)]
  /\ calc.result.choice = "mining"


\* the number x lies in the closed interval from lo to hi (whole numbers)
C22_Within(x, lo, hi) == x.den > 0 /\ lo * x.den <= x.num /\ x.num <= hi * x.den

C23_Shown(figures) == {figures[i] : i \in 1..Len(figures)}

\* the numbers a call returned, the ones printed in its texts included
C23_Returned ==
  CASE calc.fn = "calculateAnalysis" ->
         {calc.result.netProfit, calc.result.profitMargin, calc.result.powerUtilization,
          calc.result.revenuePerKw, calc.result.costPerKw, calc.result.profitPerKw,
          calc.result.arbitrage.confidence}
           \cup UNION {{calc.result.arbitrage[g].cost, calc.result.arbitrage[g].profit,
                        calc.result.arbitrage[g].profitPerKw,
                        calc.result.arbitrage[g].efficiency} : g \in {"mining", "computing"}}
           \cup {calc.result.machineEfficiency[m].roi :
                   m \in {t \in MachineTypes : calc.result.machineEfficiency[t] # NULL}}
    [] calc.fn = "calculateROI" -> {calc.result}
    [] calc.fn = "determineArbitrageChoice" ->
         {calc.result.confidence} \cup C23_Shown(Tail(calc.result.reasoning))
    [] calc.fn \in {"calculateMiningMetrics", "calculateComputingMetrics"} ->
         {calc.result.cost, calc.result.profit, calc.result.profitPerKw,
          calc.result.efficiency}
    [] calc.fn = "rankMachinesByProfitability" ->
         {calc.result[i].roi : i \in 1..Len(calc.result)}
    [] calc.fn = "generateRecommendations" ->
         UNION {C23_Shown(calc.result[i].figures) : i \in 1..Len(calc.result)}
    [] calc.fn = "determineMachineReallocation" ->
         IF calc.result = Undefined THEN {}
         ELSE {calc.result.confidence} \cup C23_Shown(calc.result.reasoning)

\* every number handed to the call is finite
C23_FiniteArguments ==
  calc.fn = "generateRecommendations" =>
    isFinite(calc.args.analysis.powerUtilization)

\* C23: no calculator or decision-engine function divides by zero: for
\* finite arguments, a site power of 0 and a worst ROI of 0 included, every
\* number returned or printed is finite (a zero divisor yields 0, never
\* Infinity or NaN)
C23_NoDivisionByZero ==
  (calc.applied /\ C23_FiniteArguments) =>
    \A x \in C23_Returned : isFinite(x)


\* C24: when the mining power and the computing power are both 0,
\* determineArbitrageChoice divides by no zero and returns mixed with a
\* confidence of at least 60, whatever the two profits are
C24_ZeroPowerIsMixed ==
  (/\ Applied("determineArbitrageChoice")
   /\ calc.args.miningPower = Zero
   /\ calc.args.computingPower = Zero) =>
    /\ calc.result.choice = "mixed"
    /\ calc.result.confidence.den > 0
    /\ calc.result.confidence.num >= 60 * calc.result.confidence.den
    /\ \A i \in 2..Len(calc.result.reasoning) : calc.result.reasoning[i].den > 0

\* the inputs (0, 0, 0, 0) have been decided
C24_Witness ==
  /\ Applied("determineArbitrageChoice")
  /\ calc.args = [miningProfit |-> Zero, computingProfit |-> Zero,
                  miningPower |-> Zero, computingPower |-> Zero]
  /\ calc.result.choice = "mixed"


\* the machine types with an efficiency record in the analysis ranked
C25_Recorded == {m \in MachineTypes : calc.args.analysis.machineEfficiency[m] # NULL}

\* C25: the output of rankMachinesByProfitability is sorted non-increasing
\* by roi and holds exactly one element per machine type whose efficiency
\* record is not null; for an analysis that calculateAnalysis returned its
\* length is the number of machine types with allocated units > 0
C25_RankingSortedAndComplete ==
  Applied("rankMachinesByProfitability") =>
    LET ranking == calc.result
    IN  /\ \A i \in 1..(Len(ranking) - 1) :
             ranking[i].roi.num * ranking[i + 1].roi.den
               >= ranking[i + 1].roi.num * ranking[i].roi.den
        /\ Len(ranking) = Cardinality(C25_Recorded)
        /\ Len(ranking) \in 0..5
        /\ \A m \in C25_Recorded :
             \E i \in 1..Len(ranking) :
               /\ ranking[i].type = TypeLabel[m]
               /\ ranking[i].roi = calc.args.analysis.machineEfficiency[m].roi
               /\ ranking[i].units = calc.args.analysis.machineEfficiency[m].unitsAllocated
        /\ calc.origin # Undefined =>
             Len(ranking) = Cardinality({m \in MachineTypes : calc.origin.units[m] > 0})

\* an analysis calculated from a status has been ranked: three or more
\* machine types, the first in the order of the types not the best
C25_Witness ==
  /\ Applied("rankMachinesByProfitability")
  /\ calc.origin # Undefined
  /\ Len(calc.result) >= 3
  /\ calc.origin.units["air_miners"] > 0
  /\ calc.result[1].type # "Air Miners"
  /\ calc.result[1].roi # calc.result[Len(calc.result)].roi


\* C26: in the result of calculateAnalysis the efficiency record of a
\* machine type is null exactly when its allocated unit count is 0; a type
\* with units > 0 gets a record with its units, power and revenue, also when
\* its power, revenue or ROI is 0
C26_NullRecordIffNoUnits ==
  Applied("calculateAnalysis") =>
    \A m \in MachineTypes :
      LET record == calc.result.machineEfficiency[m]
          status == calc.args.status
      IN  /\ record = NULL <=> status.units[m] = 0
          /\ status.units[m] > 0 =>
               /\ record.unitsAllocated = status.units[m]
               /\ record.powerUsed = status.power[m]
               /\ record.revenue = status.revenue[m]

\* an analysis has been calculated in which one machine type has units but
\* no power, revenue or ROI and has a record, and another is reported with
\* power and revenue but has no units and no record
C26_Witness ==
  /\ Applied("calculateAnalysis")
  /\ \E m \in MachineTypes :
       /\ calc.args.status.units[m] > 0
       /\ calc.args.status.power[m] = Zero
       /\ calc.result.machineEfficiency[m] # NULL
       /\ calc.result.machineEfficiency[m].roi = Zero
  /\ \E m \in MachineTypes :
       /\ calc.args.status.units[m] = 0
       /\ calc.args.status.power[m] # Zero
       /\ calc.result.machineEfficiency[m] = NULL


\* the fraction scale * a / b, from the numerators and denominators
C27_Quotient(a, b, scale) == Num(scale * a.num * b.den, a.den * b.num)

\* the fraction a - b
C27_Difference(a, b) == Num(a.num * b.den - b.num * a.den, a.den * b.den)

\* C27: calculateAnalysis returns netProfit = total_revenue -
\* total_power_cost; profitMargin = netProfit / total_revenue * 100 for a
\* positive total_revenue, else 0; powerUtilization = total_power_used /
\* siteConfig.power * 100 for a siteConfig, else 0; and revenuePerKw,
\* costPerKw and profitPerKw = revenue, cost and netProfit divided by
\* total_power_used / 1000 for a positive total_power_used, else 0
C27_BasicMetrics ==
  Applied("calculateAnalysis") =>
    LET status == calc.args.status
        site   == calc.args.siteConfig
        net    == C27_Difference(status.total_revenue, status.total_power_cost)
        used   == status.total_power_used.num > 0
    IN  /\ calc.result.netProfit = net
        /\ calc.result.profitMargin =
             IF status.total_revenue.num > 0
               THEN C27_Quotient(net, status.total_revenue, 100) ELSE Whole(0)
        /\ calc.result.powerUtilization =
             IF site # NULL
               THEN C27_Quotient(status.total_power_used, site.power, 100) ELSE Whole(0)
        /\ calc.result.revenuePerKw =
             IF used THEN C27_Quotient(status.total_revenue, status.total_power_used, 1000)
             ELSE Whole(0)
        /\ calc.result.costPerKw =
             IF used THEN C27_Quotient(status.total_power_cost, status.total_power_used, 1000)
             ELSE Whole(0)
        /\ calc.result.profitPerKw =
             IF used THEN C27_Quotient(net, status.total_power_used, 1000) ELSE Whole(0)

\* an analysis has been calculated for a site with power from totals that
\* leave a margin above 50% and a utilization above 100%
C27_Witness ==
  /\ Applied("calculateAnalysis")
  /\ calc.args.siteConfig # NULL
  /\ calc.args.siteConfig.power.num > 0
  /\ calc.args.status.total_power_cost = Num(4803, 4)
  /\ calc.result.profitMargin = Num(5197, 100)
  /\ calc.result.powerUtilization = Whole(160)
  /\ calc.result.costPerKw = Num(4803, 3200)


C28_MiningTypes == {"air_miners", "hydro_miners", "immersion_miners"}
C28_ComputingTypes == {"gpu_compute", "asic_compute"}

\* the fraction a + b
C28_Plus(a, b) == Num(a.num * b.den + b.num * a.den, a.den * b.den)

\* the sum of the figures f of the machine types in S
RECURSIVE C28_Sum(_, _)
C28_Sum(f, S) ==
  IF S = {} THEN Whole(0)
  ELSE LET m == CHOOSE x \in S : TRUE IN C28_Plus(f[m], C28_Sum(f, S \ {m}))

\* the metrics of a group with this revenue and power at this energy price
C28_Metrics(revenue, power, price) ==
  LET cost   == Num(power.num * price.num, 1000 * power.den * price.den)
      profit == C27_Difference(revenue, cost)
  IN  [revenue |-> revenue, power |-> power, cost |-> cost, profit |-> profit,
       profitPerKw |-> IF power.num > 0 THEN C27_Quotient(profit, power, 1000)
                       ELSE Whole(0),
       efficiency  |-> IF power.num > 0 THEN C27_Quotient(revenue, power, 1000)
                       ELSE Whole(0)]

\* C28: calculateAnalysis puts every machine type into exactly one group
\* (mining: air, hydro and immersion miners; computing: GPU and ASIC
\* compute): a group's revenue and power are the sums over its types, the
\* two groups add up to the sums over all five types, cost = power / 1000 *
\* energy_price, profit = revenue - cost, profitPerKw and efficiency are
\* profit and revenue per kW (0 for a group without power); and
\* calculateMiningMetrics and calculateComputingMetrics return the same
\* values for the same inputs
C28_GroupsPartitionTheTypes ==
  /\ C28_MiningTypes \cup C28_ComputingTypes = MachineTypes
  /\ C28_MiningTypes \cap C28_ComputingTypes = {}
  /\ Applied("calculateAnalysis") =>
       LET status == calc.args.status
           price  == calc.args.prices.energy_price
           groups == calc.result.arbitrage
       IN  /\ groups.mining = C28_Metrics(C28_Sum(status.revenue, C28_MiningTypes),
                                          C28_Sum(status.power, C28_MiningTypes), price)
           /\ groups.computing = C28_Metrics(C28_Sum(status.revenue, C28_ComputingTypes),
                                             C28_Sum(status.power, C28_ComputingTypes), price)
           /\ C28_Plus(groups.mining.revenue, groups.computing.revenue)
                = C28_Sum(status.revenue, MachineTypes)
           /\ C28_Plus(groups.mining.power, groups.computing.power)
                = C28_Sum(status.power, MachineTypes)
           /\ groups.mining =
                calculateMiningMetrics(
                  status.revenue["air_miners"], status.revenue["hydro_miners"],
                  status.revenue["immersion_miners"], status.power["air_miners"],
                  status.power["hydro_miners"], status.power["immersion_miners"], price)
           /\ groups.computing =
                calculateComputingMetrics(
                  status.revenue["gpu_compute"], status.revenue["asic_compute"],
                  status.power["gpu_compute"], status.power["asic_compute"], price)
  /\ Applied("calculateMiningMetrics") =>
       calc.result =
         C28_Metrics(C28_Plus(C28_Plus(calc.args.airMinersRevenue,
                                       calc.args.hydroMinersRevenue),
                              calc.args.immersionMinersRevenue),
                     C28_Plus(C28_Plus(calc.args.airMinersPower,
                                       calc.args.hydroMinersPower),
                              calc.args.immersionMinersPower),
                     calc.args.energyPrice)
  /\ Applied("calculateComputingMetrics") =>
       calc.result =
         C28_Metrics(C28_Plus(calc.args.gpuComputeRevenue, calc.args.asicComputeRevenue),
                     C28_Plus(calc.args.gpuComputePower, calc.args.asicComputePower),
                     calc.args.energyPrice)

\* an analysis has been calculated of a status in which all five machine
\* types draw power, at a price that makes the mining group lose money
C28_Witness ==
  /\ Applied("calculateAnalysis")
  /\ \A m \in MachineTypes : calc.args.status.power[m].num > 0
  /\ calc.result.arbitrage.mining.power = Whole(300000)
  /\ calc.result.arbitrage.computing.power = Whole(200000)
  /\ calc.result.arbitrage.mining.profit.num < 0
  /\ calc.result.arbitrage.mining.profitPerKw.num < 0


\* the cost of this power at this energy price: power / 1000 * energyPrice
C29_Cost(power, price) == Num(power.num * price.num, 1000 * power.den * price.den)

\* C29: calculateROI(powerUsed, revenue, energyPrice) is (revenue - cost) /
\* cost * 100 with cost = powerUsed / 1000 * energyPrice when the cost is
\* positive and 0 when it is not; it is negative exactly when the cost is
\* positive and the revenue is less than the cost
C29_RoiOfCost ==
  Applied("calculateROI") =>
    LET cost    == C29_Cost(calc.args.powerUsed, calc.args.energyPrice)
        revenue == calc.args.revenue
    IN  /\ calc.result =
             IF cost.num > 0
               THEN C27_Quotient(C27_Difference(revenue, cost), cost, 100)
               ELSE Whole(0)
        /\ calc.result.num < 0 <=>
             (cost.num > 0 /\ revenue.num * cost.den < cost.num * revenue.den)

\* the ROI of 10 kW at 0.12 per kWh with a revenue of 0.5 has been
\* calculated: it is negative
C29_Witness ==
  /\ Applied("calculateROI")
  /\ calc.args = [powerUsed |-> Whole(10000), revenue |-> Num(1, 2),
                  energyPrice |-> Num(3, 25)]
  /\ calc.result = Num(-175, 3)


\* the recommendation whose text opens with these words is in the result
C30_Has(text) == \E i \in 1..Len(calc.result) : calc.result[i].text = text

\* how many recommendations of the result open with these words
C30_Count(text) == Cardinality({i \in 1..Len(calc.result) : calc.result[i].text = text})

\* the number x is less than, is greater than the whole number n
C30_Below(x, n) == x.den > 0 /\ x.num < n * x.den
C30_Above(x, n) == IF x.den > 0 THEN x.num > n * x.den ELSE x.num > 0

\* C30: generateRecommendations never returns both the low-utilization
\* suggestion and the overload caution, nor both the low-margin suggestion
\* and the high-margin praise: the low-utilization one appears exactly when
\* powerUtilization < 70, the overload one exactly when powerUtilization >
\* 95, the low-margin one exactly when profitMargin < 20 and the high-margin
\* one exactly when profitMargin > 60
C30_AdviceByThresholds ==
  Applied("generateRecommendations") =>
    LET analysis == calc.args.analysis
    IN  /\ ~(C30_Has("Power utilization is low") /\ C30_Has("Power utilization is very high"))
        /\ ~(C30_Has("Profit margin is low") /\ C30_Has("Excellent profit margin"))
        /\ C30_Has("Power utilization is low") <=> C30_Below(analysis.powerUtilization, 70)
        /\ C30_Has("Power utilization is very high")
             <=> C30_Above(analysis.powerUtilization, 95)
        /\ C30_Has("Profit margin is low") <=> C30_Below(analysis.profitMargin, 20)
        /\ C30_Has("Excellent profit margin") <=> C30_Above(analysis.profitMargin, 60)
        /\ \A text \in {"Power utilization is low", "Power utilization is very high",
                        "Profit margin is low", "Excellent profit margin"} :
             C30_Count(text) <= 1

\* recommendations have been generated for a utilization of 96% and a
\* margin of 19%: the overload caution and the low-margin suggestion
C30_Witness ==
  /\ Applied("generateRecommendations")
  /\ calc.args.analysis.powerUtilization = Whole(96)
  /\ calc.args.analysis.profitMargin = Whole(19)
  /\ C30_Has("Power utilization is very high")
  /\ C30_Has("Profit margin is low")


\* the machine types of the analysis that have an efficiency record
C31_Active(analysis) == {m \in MachineTypes : analysis.machineEfficiency[m] # NULL}

\* the ROI x is greater than n times the ROI y, both finite
C31_Exceeds(x, n, y) == x.num * y.den > n * y.num * x.den

\* the types of the best and of the worst ROI among the active ones
C31_Best(analysis) ==
  {b \in C31_Active(analysis) :
     \A m \in C31_Active(analysis) :
       ~C31_Exceeds(analysis.machineEfficiency[m].roi, 1, analysis.machineEfficiency[b].roi)}

C31_Worst(analysis) ==
  {w \in C31_Active(analysis) :
     \A m \in C31_Active(analysis) :
       ~C31_Exceeds(analysis.machineEfficiency[w].roi, 1, analysis.machineEfficiency[m].roi)}

C32_Requests(s) ==
  /\ handlers'[s].kind \in C15_Kinds
  /\ handlers'[s].pc \in {"getMachineStatus", "getPrices"}
  /\ handlers'[s].pc # handlers[s].pc
  /\ handlers'[s].sent

\* an upstream request of the handler run of source s fails in this step
C32_RequestFails(s) ==
  /\ handlers[s].kind \in C15_Kinds
  /\ handlers[s].pc \in {"getMachineStatus", "getPrices"}
  /\ handlers[s].sent
  /\ handlers'[s].failed

\* C32: the data of every machine_status event produced for an on-demand
\* request, an initial subscription or a periodic tick is obtained through
\* the cache: a run served while the prices and machine-status slots are
\* valid issues no upstream request, and a run whose upstream request fails
\* while both slots hold an entry still emits a machine_status event
C32_StatusThroughCache ==
  [][\A s \in {"socket", "server"} :
       /\ (SlotValid("prices") /\ SlotValid("machineStatus")) => ~C32_Requests(s)
       /\ (C32_RequestFails(s) /\ cache["prices"] # NULL /\ cache["machineStatus"] # NULL)
            => Len(C15_Emitted(handlers'[s])) = 1]_vars


\* C33: whenever makeComprehensiveDecision returns a machineReallocation
\* suggestion, which is what determineMachineReallocation returned for its
\* analysis, the confidence of the suggestion is greater than 60 and at
\* most 95, for every combination of ROI values including a worst ROI that
\* is zero or negative
C33_ReallocationConfidence ==
  (Applied("determineMachineReallocation") /\ calc.result # Undefined)
    => LET c == calc.result.confidence
       IN  c.den > 0 /\ c.num > 60 * c.den /\ c.num <= 95 * c.den


(* getProfitabilityTrend *)

\* entry p of the log of the run is a read with this forceRefresh
C34_Read(p, forceRefresh) ==
  trend.log[p].ev = "read" /\ trend.log[p].arg = forceRefresh

\* entry p of the log is the answer or the failure of a read
C34_Outcome(p) == trend.log[p].ev \in {"answer", "failure"}

\* C34: getProfitabilityTrend(samples, interval) with samples >= 1 reads the
\* analysis once, unforced, for currentAnalysis and then exactly `samples`
\* more times in order, with forceRefresh = true for the first sample only;
\* it waits `interval` minutes after every sample but the last; it returns
\* when the last sample is read, with currentAnalysis the first answer and
\* historicalData the `samples` later answers in order; when a read fails
\* the call fails at once with that error
C34_TrendProtocol ==
  trend.samples >= 1 =>
    LET log == trend.log
        n   == trend.samples
    IN  /\ Len(log) <= 3 * n + 1
        /\ \A p \in 1..Len(log) :
             CASE p = 1     -> C34_Read(p, FALSE)
               [] p = 2     -> C34_Outcome(p)
               [] p % 3 = 0 -> C34_Read(p, p = 3)
               [] p % 3 = 1 -> C34_Outcome(p)
               [] OTHER     -> /\ log[p].ev = "wait"
                               /\ log[p].arg = trend.intervalMinutes * 60000
                               /\ p \div 3 < n
        /\ \A p \in 1..Len(log) :
             log[p].ev = "failure"
               => p = Len(log) /\ trend.pc = "threw" /\ trend.err = log[p].arg
        /\ trend.pc = "threw" => log[Len(log)].ev = "failure"
        /\ trend.pc = "returned" <=> (Len(log) = 3 * n + 1 /\ log[Len(log)].ev = "answer")
        /\ trend.pc = "returned" =>
             /\ trend.currentAnalysis = log[2].arg
             /\ Len(trend.historicalData) = n
             /\ \A j \in 1..n :
                  /\ trend.historicalData[j].netProfit = log[3 * j + 1].arg.netProfit
                  /\ trend.historicalData[j].profitMargin = log[3 * j + 1].arg.profitMargin
                  /\ trend.historicalData[j].powerUtilization
                       = log[3 * j + 1].arg.powerUtilization

\* a run of three samples two minutes apart has returned the profits 1000,
\* 0 and 1100 in this order
C34_Witness ==
  /\ trend.pc = "returned"
  /\ trend.samples = 3
  /\ trend.intervalMinutes = 2
  /\ Len(trend.historicalData) = 3
  /\ trend.historicalData[1].netProfit = Whole(1000)
  /\ trend.historicalData[2].netProfit = Zero
  /\ trend.historicalData[3].netProfit = Whole(1100)
  /\ trend.result.trend = "improving"


(* The cache under failures and overlapping calls *)

\* C35: a get<k> whose upstream call fails leaves all three slots exactly as
\* they were (data, timestamp and ttl), whether it serves the old entry or
\* raises: an expired entry stays expired, and a later non-forced get<k>
\* that finds it issues a new upstream call
C35_FailureKeepsSlots ==
  [][\A t \in OpIds, k \in Kinds :
       /\ FetchFails(t, k)
            => /\ cache' = cache
               /\ (cache[k] # NULL /\ ~SlotValid(k))
                    => (cache'[k] # NULL /\ now' - cache'[k].timestamp >= cache'[k].ttl)
       /\ (Calls(t, k) /\ ~ops'[t].force /\ cache[k] # NULL /\ ~SlotValid(k))
            => (ops'[t].sub[k].st = "pending" /\ cache' = cache)]_vars

\* a get call has just been served the expired entry of its slot after its
\* upstream request failed
C35_Witness ==
  \E k \in Kinds :
    /\ ops[1].type = "get"
    /\ ops[1].sub[k].st = "stale"
    /\ cache[k] # NULL
    /\ now - cache[k].timestamp >= cache[k].ttl
    /\ ops[1].sub[k].val = cache[k].data


\* C36: the fallback of a get<k> whose upstream call fails is decided on
\* what slot k holds when the failure is handled, not on what it held when
\* the call began: if the slot held an entry then and has been invalidated
\* since, the call raises; if it was empty then and has been filled since,
\* the call returns the entry
C36_FallbackDecidedAtFailure ==
  [][\A t \in OpIds, k \in Kinds :
       (FetchFails(t, k) /\ ops[t].type = "get")
       => /\ (k \in ops[t].held /\ cache[k] = NULL)
               => /\ ops'[t].sub[k].st = "raised"
                  /\ ops'[t].res = "failed"
          /\ (k \notin ops[t].held /\ cache[k] # NULL)
               => /\ ops'[t].sub[k] = Stale(cache[k].data)
                  /\ ops'[t].res = "ok"]_vars

\* a get call that began on a filled slot has raised: the slot was
\* invalidated while its upstream call was in flight
C36_Witness ==
  \E t \in OpIds, k \in Kinds :
    /\ ops[t].type = "get"
    /\ k \in ops[t].held
    /\ ops[t].sub[k].st = "raised"
    /\ ops[t].res = "failed"
    /\ cache[k] = NULL
    /\ k \in invalidated


\* C37: when upstream fetches for the same kind overlap, each one that
\* succeeds replaces the slot with its own result at the time it completes,
\* whatever the slot holds by then and whatever is still in flight: the slot
\* holds the result of the fetch that completed last, the other fetches
\* stay in flight, and the timestamp of a slot never decreases from one
\* entry to the next
C37_LastCompletionWins ==
  [][\A t \in OpIds, k \in Kinds :
       FetchSucceeds(t, k)
       => /\ cache'[k] # NULL
          /\ cache'[k].data = ops'[t].sub[k].val
          /\ cache'[k].timestamp = now
          /\ cache[k] # NULL => cache'[k].timestamp >= cache[k].timestamp
          /\ C17_InFlight(ops', k) = C17_InFlight(ops, k) \ {t}]_vars

\* a get call that began on an empty slot is still in flight while the
\* fetch of the other caller has filled the slot with "a" at an earlier
\* time: the next successful answer replaces that entry
C37_Witness ==
  \E k \in Kinds :
    /\ ops[1].type = "get" /\ ~ops[1].force
    /\ ops[1].sub[k].st = "pending" /\ ops[1].sub[k].sent
    /\ k \notin ops[1].held
    /\ k \notin invalidated
    /\ cache[k] # NULL /\ cache[k].data = "a" /\ cache[k].timestamp < now


\* C38: getAllData is not atomic across kinds. The step in which it fails,
\* because one kind's fetch failed on an empty slot, and the step in which
\* its caller resumes with the failure leave every slot as it is: entries
\* written by the fetches that had succeeded are not rolled back. A fetch of
\* the failed call that is answered successfully afterwards still replaces
\* its slot with the fetched value at the time of the answer.
C38_GetAllNotAtomic ==
  [][\A t \in OpIds :
       ops[t].type = "getAll"
       => /\ (ops[t].phase = "running" /\ ops'[t].res = "failed")
               => /\ cache' = cache
                  /\ \A k \in Kinds :
                       ops[t].sub[k].st = "fresh" => ops'[t].sub[k] = ops[t].sub[k]
          /\ (ops[t].phase = "settled" /\ ops[t].res = "failed" /\ ops'[t] # ops[t])
               => cache' = cache
          /\ \A k \in Kinds :
               (ops[t].phase \in {"running", "orphaned"}
                  /\ ops[t].sub[k].st = "pending" /\ ops'[t].sub[k].st = "fresh")
               => cache'[k] = [data |-> ops'[t].sub[k].val, timestamp |-> now,
                               ttl |-> DEFAULT_TTL[k]]]_vars

\* getAllData has failed on an empty slot; one of its fetches has been
\* answered afterwards and has filled its slot, another is still in flight
C38_Witness ==
  \E k \in Kinds, j \in Kinds, m \in Kinds :
    /\ ops[1].type = "getAll" /\ ops[1].phase = "orphaned"
    /\ ops[1].sub[k].st = "fresh"
    /\ cache[k] # NULL /\ cache[k].data = ops[1].sub[k].val
    /\ ops[1].sub[j].st = "pending"
    /\ ops[1].sub[m].st = "none" /\ cache[m] = NULL


\* the choice for the other side
C39_Swapped(choice) ==
  CASE choice = "mining"    -> "computing"
    [] choice = "computing" -> "mining"
    [] OTHER                -> choice

\* C39: determineArbitrageChoice is symmetric in its two sides: for all
\* numeric inputs, negative profits included, the call with the mining and
\* the computing figures exchanged returns the choice for the other side
\* (mixed stays mixed) with the same confidence; equal profits per kW give
\* mixed
C39_Symmetric ==
  Applied("determineArbitrageChoice") =>
    LET a       == calc.args
        swapped == determineArbitrageChoice(a.computingProfit, a.miningProfit,
                                            a.computingPower, a.miningPower)
    IN  /\ swapped.choice = C39_Swapped(calc.result.choice)
        /\ swapped.confidence = calc.result.confidence
        /\ C21_PerKw(a.miningProfit, a.miningPower)
             = C21_PerKw(a.computingProfit, a.computingPower)
             => calc.result.choice = "mixed"


(* StartupService.initialize *)

\* the events of this name a handler run has emitted
C40_Emitted(h, name) == SelectSeq(h.events, LAMBDA e : e.name = name)

\* C40: StartupService.initialize on an unconfigured site issues no upstream
\* call and emits no event. On a configured site it calls
\* updateMachineAllocation first, then fetches the machine status, then the
\* prices, each after the one before has succeeded, and broadcasts
\* machine_status only after all of them. When one of these calls fails it
\* emits exactly one startup_error event, carrying the error, and no
\* machine_status event. In either case initialize returns normally, and the
\* periodic updates are started only after it has returned.
C40_StartupSequence ==
  /\ [](LET h == handlers["server"]
        IN  /\ h.kind = "initialize" =>
                 /\ Len(C40_Emitted(h, "machine_status")) <= 1
                 /\ Len(C40_Emitted(h, "startup_error")) = (IF h.failed THEN 1 ELSE 0)
                 /\ h.failed =>
                      /\ h.pc = "done"
                      /\ C40_Emitted(h, "machine_status") = <<>>
                      /\ h.events[1].to = "all"
                      /\ h.events[1].payload.error = h.err
                 /\ C40_Emitted(h, "machine_status") # <<>> =>
                      /\ h.pc = "done"
                      /\ h.submitted
                      /\ h.status # NoData
                      /\ h.events[1].to = "all"
                 /\ Len(h.events) <= 1
            /\ server.updateTimer => server.boot = "started"
            /\ server.boot = "listening" => h.kind # "periodic_update")
  /\ [][LET h == handlers["server"]
            g == handlers'["server"]
        IN  /\ (h.pc = "idle" /\ g.kind = "initialize")
                 => IF configured
                      THEN g.pc = "getInventory" /\ g.events = <<>> /\ ~g.submitted
                      ELSE g.pc = "done" /\ g.events = <<>> /\ ~g.sent /\ ~g.submitted
                           /\ ~g.failed
            /\ (h.kind = "initialize" /\ g.kind = "initialize" /\ g.pc # h.pc)
                 => /\ g.pc = "put" => h.pc = "getInventory"
                    /\ g.pc = "getMachineStatus" => (h.pc = "put" /\ h.sent)
                    /\ g.pc = "getPrices" => (h.pc = "getMachineStatus" /\ h.sent
                                               /\ g.status # NoData)
                    /\ (g.pc = "done" /\ ~g.failed /\ h.pc # "idle")
                         => (h.pc = "getPrices" /\ h.sent
                              /\ C40_Emitted(g, "machine_status") # <<>>)
            /\ server'.boot # server.boot
                 => \/ server.boot = "listening" /\ server'.boot = "initializing"
                       /\ g.kind = "initialize"
                    \/ server.boot = "initializing" /\ server'.boot = "started"
                       /\ h.kind = "initialize" /\ h.pc = "done"
            /\ (~server.updateTimer /\ server'.updateTimer)
                 => (h.kind = "initialize" /\ h.pc = "done")]_vars

\* initialize has submitted the allocation and fetched the machine status;
\* the price fetch has failed and the run ends with one startup_error
C40_Witness ==
  LET h == handlers["server"]
  IN  /\ h.kind = "initialize"
      /\ h.pc = "done"
      /\ h.failed
      /\ h.submitted
      /\ h.status # NoData
      /\ h.err.op = "getPrices"
      /\ Len(h.events) = 1
      /\ h.events[1].name = "startup_error"

TypeOK ==
  /\ now \in Nat
  /\ advances \in 0..MaxAdvances
  /\ configured \in BOOLEAN
  /\ refreshTimer \in BOOLEAN
  /\ \A k \in Kinds : cache[k] = NULL \/ cache[k].data \in Data
  /\ \A t \in OpIds : ops[t].phase \in {"idle", "running", "settled", "orphaned"}
  /\ statusReport = NoReport \/ DOMAIN statusReport = Kinds
  /\ \A s \in Sources :
       /\ handlers[s].pc \in Awaiting \cup {"idle", "done"}
       /\ handlers[s].kind \in SocketKinds \cup ServerKinds
                                \cup {"idle", "updateMachineAllocation"}
       /\ Len(handlers[s].events) <= 2
  /\ server.boot \in {"listening", "initializing", "started"}
  /\ server.life \in {"up", "closing", "exited"}
  /\ server.updateTimer \in BOOLEAN
  /\ calc.applied \in BOOLEAN
  /\ trend.pc \in {"idle", "current", "sample", "wait", "returned", "threw"}
  /\ Len(trend.historicalData) <= trend.samples

====
